---- MODULE Spec2Model ----
(***************************************************************************)
(* Model of the selimcam application core: the application state machine   *)
(* (core/state_machine.py), the power manager (main.py) with the display   *)
(* backlight controller it drives (hardware/brightness.py), the camera     *)
(* backend with its preview thread (hardware/camera_backend.py), start-up  *)
(* with the sensor thread and the main loop (main.py), the flash with its  *)
(* watchdog (hardware/flash_led.py), the filter engine                     *)
(* (filters/filter_engine.py), and the input callbacks that run on threads *)
(* of their own: transitions with the camera scene's hooks                 *)
(* (scenes/camera_scene.py) and the shutter button's photo capture.        *)
(*                                                                         *)
(* A method that runs on the main thread alone is one atomic action; the   *)
(* methods of the camera backend and the two background loops are taken    *)
(* statement by statement, so that the threads interleave.  An action      *)
(* stores a record of the call it modelled (operation, argument, return    *)
(* value, the object as it was before the call, and what the call did) in  *)
(* sm_call / pm_call / fs_call, so that properties of single calls are     *)
(* state predicates.                                                       *)
(***************************************************************************)
EXTENDS Integers, Sequences, FiniteSets, TLC

VARIABLES
    state_machine,   \* StateMachine: current_state, previous_state, callbacks
    sm_call,         \* the last call made on state_machine
    power_manager,   \* PowerManager: state, timers, saved brightness, config
    brightness_ctrl, \* BrightnessController: available, sysfs brightness value
    button,          \* DebouncedButton: line level and when/how it was pressed
    now,             \* time.time(), in whole time units
    pm_call,         \* the call made on power_manager in the last step, if any
    camera,          \* CameraBackend: flags, frame buffer, and the device behind it
    threads,         \* the preview threads a picamera CameraBackend has created
    frame_lock,      \* CameraBackend._frame_lock: 0, or the thread that holds it
    fs_call,         \* the call the main thread makes, or last made, on camera
    startup,         \* CameraApp.__init__ / main(): how far start-up has come
    sensor_thread,   \* SensorThread: flags, gates, snapshot, position in run()
    sensors,         \* the sensors SensorThread polls: availability, reads made
    app,             \* CameraApp.run: the main loop and the tick it is in
    flash_led,       \* FlashLED: the GPIO line, _is_on, and the watchdog timers
    filter_engine,   \* FilterEngine: the frame handed to it and what it returned
    input            \* transitions and the shutter callback in progress, by thread

sm_vars == <<state_machine, sm_call>>
pm_vars == <<power_manager, brightness_ctrl, button, now, pm_call>>
fs_vars == <<camera, threads, frame_lock, fs_call>>
sp_vars == <<startup, sensor_thread, sensors>>
ap_vars == <<app, flash_led, filter_engine, input>>
vars == <<state_machine, sm_call, power_manager, brightness_ctrl, button, now, pm_call,
          camera, threads, frame_lock, fs_call, startup, sensor_thread, sensors,
          app, flash_led, filter_engine, input>>

None == "None"

\* Python's None in a field that otherwise holds a number (a time, a brightness).
NoValue == -1

(***************************************************************************)
(* core/state_machine.py                                                   *)
(***************************************************************************)
AppState == {"BOOT", "CAMERA", "SETTINGS", "GALLERY", "SHUTDOWN"}

AppEvent == {"BOOT_COMPLETE", "OPEN_SETTINGS", "OPEN_GALLERY",
             "BACK_TO_CAMERA", "SHUTDOWN_REQUEST"}

\* handle_event accepts any object; a value outside the vocabulary finds no
\* entry in event_transitions.
OtherEvent == "OTHER"

\* Mutant: the terminal state gets an outgoing edge (a "restart" edge).
TRANSITIONS_restart(s) ==
    CASE s = "BOOT"     -> {"CAMERA"}
      [] s = "CAMERA"   -> {"SETTINGS", "GALLERY", "SHUTDOWN"}
      [] s = "SETTINGS" -> {"CAMERA", "SHUTDOWN"}
      [] s = "GALLERY"  -> {"CAMERA", "SHUTDOWN"}
      [] s = "SHUTDOWN" -> {"CAMERA"}
      [] OTHER          -> {}

\* Mutant: Settings loses its edge to Shutdown and Boot gains one.
TRANSITIONS_shifted(s) ==
    CASE s = "BOOT"     -> {"CAMERA", "SHUTDOWN"}
      [] s = "CAMERA"   -> {"SETTINGS", "GALLERY", "SHUTDOWN"}
      [] s = "SETTINGS" -> {"CAMERA"}
      [] s = "GALLERY"  -> {"CAMERA", "SHUTDOWN"}
      [] s = "SHUTDOWN" -> {}
      [] OTHER          -> {}

TRANSITIONS(s) ==
    CASE s = "BOOT"     -> {"CAMERA"}
      [] s = "CAMERA"   -> {"SETTINGS", "GALLERY", "SHUTDOWN"}
      [] s = "SETTINGS" -> {"CAMERA", "SHUTDOWN"}
      [] s = "GALLERY"  -> {"CAMERA", "SHUTDOWN"}
      [] s = "SHUTDOWN" -> {}
      [] OTHER          -> {}

\* Mutant: every target is accepted.
can_transition_any(self, target_state) == target_state \in AppState

can_transition(self, target_state) ==
    target_state \in TRANSITIONS(self.current_state)

\* A callback registered for a state is invoked synchronously and returns;
\* the scenes' on_enter/on_exit never call back into the state machine.  What
\* the callback can observe of the machine while it runs is logged.
Invoke(kind, self) ==
    [kind |-> kind, state |-> self.current_state,
     current_state |-> self.current_state, previous_state |-> self.previous_state]

\* A call in progress: the machine and the log of callbacks invoked so far.
ExitCurrent(c) ==
    IF c.self.current_state \in c.self.on_exit_callbacks
    THEN [c EXCEPT !.hooks = Append(@, Invoke("exit", c.self))]
    ELSE c

UpdateState(c, target_state) ==
    LET s1 == [c.self EXCEPT !.previous_state = c.self.current_state]
        s2 == [s1 EXCEPT !.current_state = target_state]
    IN  [c EXCEPT !.self = s2]

EnterNew(c) ==
    IF c.self.current_state \in c.self.on_enter_callbacks
    THEN [c EXCEPT !.hooks = Append(@, Invoke("enter", c.self))]
    ELSE c

\* Mutant: the state is updated before the exit callback runs.
transition_update_first(self, target_state) ==
    LET c0 == [self |-> self, hooks |-> <<>>, ret |-> FALSE] IN
    IF ~can_transition(self, target_state)
    THEN c0
    ELSE [EnterNew(ExitCurrent(UpdateState(c0, target_state))) EXCEPT !.ret = TRUE]

transition(self, target_state) ==
    LET c0 == [self |-> self, hooks |-> <<>>, ret |-> FALSE] IN
    IF ~can_transition(self, target_state)
    THEN c0
    ELSE [EnterNew(UpdateState(ExitCurrent(c0), target_state)) EXCEPT !.ret = TRUE]

\* Mutant: the shutdown request is mapped like BACK_TO_CAMERA.
event_transitions_swapped(event) ==
    CASE event = "BOOT_COMPLETE"    -> "CAMERA"
      [] event = "OPEN_SETTINGS"    -> "SETTINGS"
      [] event = "OPEN_GALLERY"     -> "GALLERY"
      [] event = "BACK_TO_CAMERA"   -> "CAMERA"
      [] event = "SHUTDOWN_REQUEST" -> "CAMERA"
      [] OTHER                      -> None

event_transitions(event) ==
    CASE event = "BOOT_COMPLETE"    -> "CAMERA"
      [] event = "OPEN_SETTINGS"    -> "SETTINGS"
      [] event = "OPEN_GALLERY"     -> "GALLERY"
      [] event = "BACK_TO_CAMERA"   -> "CAMERA"
      [] event = "SHUTDOWN_REQUEST" -> "SHUTDOWN"
      [] OTHER                      -> None

\* Mutant: the mapped state is assigned directly, past the table and the
\* callbacks.
handle_event_direct(self, event) ==
    LET target_state == event_transitions(event) IN
    IF target_state # None
    THEN [self |-> [self EXCEPT !.previous_state = self.current_state,
                                !.current_state = target_state],
          hooks |-> <<>>, ret |-> TRUE]
    ELSE [self |-> self, hooks |-> <<>>, ret |-> FALSE]

handle_event(self, event) ==
    LET target_state == event_transitions(event) IN
    IF target_state # None
    THEN transition(self, target_state)
    ELSE [self |-> self, hooks |-> <<>>, ret |-> FALSE]

on_enter(self, s) == [self EXCEPT !.on_enter_callbacks = @ \cup {s}]

on_exit(self, s) == [self EXCEPT !.on_exit_callbacks = @ \cup {s}]

StateMachineInit(initial_state) ==
    [current_state |-> initial_state, previous_state |-> None,
     on_enter_callbacks |-> {}, on_exit_callbacks |-> {}]

\* Mutant: the default of initial_state is the camera state.
StateMachineDefault_camera == StateMachineInit("CAMERA")

\* StateMachine(): initial_state defaults to AppState.BOOT.
StateMachineDefault == StateMachineInit("BOOT")

\* Bound: the number of callbacks registered in one run.
MaxCallbacks == 3

Registered(self) ==
    Cardinality(self.on_enter_callbacks) + Cardinality(self.on_exit_callbacks)

SMCall(op, arg, pre, c) ==
    [op |-> op, arg |-> arg, ret |-> c.ret, pre |-> pre, hooks |-> c.hooks]

SMTransition ==
    \E target_state \in AppState :
        LET c == transition(state_machine, target_state) IN
        /\ state_machine' = c.self
        /\ sm_call' = SMCall("transition", target_state, state_machine, c)
        /\ UNCHANGED <<pm_vars, fs_vars, sp_vars, ap_vars>>

SMHandleEvent ==
    \E event \in AppEvent \cup {OtherEvent} :
        LET c == handle_event(state_machine, event) IN
        /\ state_machine' = c.self
        /\ sm_call' = SMCall("handle_event", event, state_machine, c)
        /\ UNCHANGED <<pm_vars, fs_vars, sp_vars, ap_vars>>

SMOnEnter ==
    \E s \in AppState :
        /\ Registered(on_enter(state_machine, s)) <= MaxCallbacks
        /\ state_machine' = on_enter(state_machine, s)
        /\ sm_call' = [op |-> "on_enter", arg |-> s, ret |-> FALSE,
                       pre |-> state_machine, hooks |-> <<>>]
        /\ UNCHANGED <<pm_vars, fs_vars, sp_vars, ap_vars>>

SMOnExit ==
    \E s \in AppState :
        /\ Registered(on_exit(state_machine, s)) <= MaxCallbacks
        /\ state_machine' = on_exit(state_machine, s)
        /\ sm_call' = [op |-> "on_exit", arg |-> s, ret |-> FALSE,
                       pre |-> state_machine, hooks |-> <<>>]
        /\ UNCHANGED <<pm_vars, fs_vars, sp_vars, ap_vars>>

(***************************************************************************)
(* hardware/brightness.py                                                  *)
(***************************************************************************)
max_brightness == 255

\* Values the sysfs brightness file holds in the model: off, and two of the
\* configured levels (dark, medium).
BrightnessValues == {0, 40, 120}

\* The levels the settings scene and the start-up code write.
ConfiguredLevels == {40, 120}

Clamp(value) ==
    IF value < 0 THEN 0 ELSE IF value > max_brightness THEN max_brightness ELSE value

\* Outcome of the file accesses of one call: the read in get_brightness and
\* the write in set_brightness each succeed or raise (and are caught).
IO == [rd_ok : BOOLEAN, wr_ok : BOOLEAN]

\* c is a PowerManager call in progress: the manager (self), the controller
\* (bc), the values passed to set_brightness so far (sets) and the return value.
set_brightness(c, value, io) ==
    LET logged == [c EXCEPT !.sets = Append(@, value)] IN
    IF ~c.bc.available THEN logged
    ELSE IF io.wr_ok THEN [logged EXCEPT !.bc.brightness = Clamp(value)]
    ELSE logged

get_brightness(bc, io) ==
    IF ~bc.available THEN NoValue
    ELSE IF io.rd_ok THEN bc.brightness
    ELSE NoValue

(***************************************************************************)
(* main.py: PowerManager                                                   *)
(***************************************************************************)
STATE_ACTIVE == "active"
STATE_STANDBY == "standby"
STATE_SHUTDOWN == "shutdown"

\* The fallback of "self.active_brightness or 120" in wake_from_standby.
WakeFallback == 120

\* Python's "x or d": d when x is None or 0.
PyOr(x, d) == IF x = NoValue \/ x = 0 THEN d ELSE x

enter_standby(c, io) ==
    IF c.self.state = STATE_STANDBY THEN c
    ELSE LET c1 == [c EXCEPT !.self.active_brightness = get_brightness(c.bc, io)]
             c2 == set_brightness(c1, 0, io)
         IN  [c2 EXCEPT !.self.state = STATE_STANDBY]

wake_from_standby(c, t, io) ==
    IF c.self.state # STATE_STANDBY THEN c
    ELSE LET c1 == set_brightness(c, PyOr(c.self.active_brightness, WakeFallback), io)
         IN  [c1 EXCEPT !.self.state = STATE_ACTIVE, !.self.last_activity_time = t]

\* Mutant: any state other than Active is woken.
update_activity_eager(c, t, io) ==
    LET c1 == [c EXCEPT !.self.last_activity_time = t] IN
    IF c1.self.state # STATE_ACTIVE
    THEN LET c2 == set_brightness(c1, PyOr(c1.self.active_brightness, WakeFallback), io)
         IN  [c2 EXCEPT !.self.state = STATE_ACTIVE]
    ELSE c1

update_activity(c, t, io) ==
    LET c1 == [c EXCEPT !.self.last_activity_time = t] IN
    IF c1.self.state = STATE_STANDBY
    THEN wake_from_standby(c1, t, io)
    ELSE c1

\* Mutant: the state guard is missing.
check_standby_unguarded(c, motion_detected, t, io) ==
    IF motion_detected
    THEN [c EXCEPT !.self.last_activity_time = t, !.ret = FALSE]
    ELSE IF t - c.self.last_activity_time >= c.self.standby_timeout
    THEN [enter_standby(c, io) EXCEPT !.ret = TRUE]
    ELSE [c EXCEPT !.ret = FALSE]

\* Mutant: the timeout comparison is strict.
check_standby_strict(c, motion_detected, t, io) ==
    IF c.self.state # STATE_ACTIVE THEN [c EXCEPT !.ret = FALSE]
    ELSE IF motion_detected
    THEN [c EXCEPT !.self.last_activity_time = t, !.ret = FALSE]
    ELSE IF t - c.self.last_activity_time > c.self.standby_timeout
    THEN [enter_standby(c, io) EXCEPT !.ret = TRUE]
    ELSE [c EXCEPT !.ret = FALSE]

check_standby(c, motion_detected, t, io) ==
    IF c.self.state # STATE_ACTIVE THEN [c EXCEPT !.ret = FALSE]
    ELSE IF motion_detected
    THEN [c EXCEPT !.self.last_activity_time = t, !.ret = FALSE]
    ELSE IF t - c.self.last_activity_time >= c.self.standby_timeout
    THEN [enter_standby(c, io) EXCEPT !.ret = TRUE]
    ELSE [c EXCEPT !.ret = FALSE]

\* Mutant: the press is recorded in every state, as the previous revision of
\* the method did.
encoder_button_pressed_always(c, t, io) ==
    update_activity([c EXCEPT !.self.encoder_press_start = t], t, io)

encoder_button_pressed(c, t, io) ==
    IF c.self.state = STATE_STANDBY
    THEN update_activity(wake_from_standby(c, t, io), t, io)
    ELSE update_activity([c EXCEPT !.self.encoder_press_start = t], t, io)

request_shutdown(c) == [c EXCEPT !.self.state = STATE_SHUTDOWN]

encoder_button_released(c, t) ==
    IF c.self.encoder_press_start = NoValue THEN [c EXCEPT !.ret = FALSE]
    ELSE LET duration == t - c.self.encoder_press_start
             c1 == [c EXCEPT !.self.encoder_press_start = NoValue]
         IN  IF duration >= c1.self.shutdown_long_press /\ c1.self.state = STATE_ACTIVE
             THEN [request_shutdown(c1) EXCEPT !.ret = TRUE]
             ELSE [c1 EXCEPT !.ret = FALSE]

PowerManagerInit(t, timeout, long_press) ==
    [state |-> STATE_ACTIVE, last_activity_time |-> t,
     standby_timeout |-> timeout, shutdown_long_press |-> long_press,
     encoder_press_start |-> NoValue, active_brightness |-> NoValue]

(***************************************************************************)
(* Bounds                                                                  *)
(***************************************************************************)
MaxTime == 4        \* the clock stops advancing here
MaxTimeout == 2     \* configured power.standby_timeout_s ranges over 1..MaxTimeout
MaxLongPress == 2   \* configured power.shutdown_long_press_s, 1..MaxLongPress

(***************************************************************************)
(* Actions on the power manager.  The callers are the main loop            *)
(* (check_standby, update_activity), the encoder button callbacks and the  *)
(* settings scene (which writes the brightness directly).                  *)
(***************************************************************************)
ButtonUp == [down |-> FALSE, press_time |-> NoValue, press_state |-> None]

\* pm_call when the last step was no call: construction, or the clock advancing.
NoCall ==
    [op |-> "none", arg |-> FALSE, ret |-> FALSE, t |-> 0,
     io |-> [rd_ok |-> TRUE, wr_ok |-> TRUE],
     pre |-> PowerManagerInit(0, 1, 1),
     pre_bc |-> [available |-> FALSE, brightness |-> NoValue],
     pre_button |-> ButtonUp, sets |-> <<>>]

PMStart == [self |-> power_manager, bc |-> brightness_ctrl, sets |-> <<>>, ret |-> FALSE]

PMCall(op, arg, io, c) ==
    [op |-> op, arg |-> arg, ret |-> c.ret, t |-> now, io |-> io,
     pre |-> power_manager, pre_bc |-> brightness_ctrl, pre_button |-> button,
     sets |-> c.sets]

\* The outcome of a file access is recorded only for calls that made one.
Normal(io, c) == IF c.sets = <<>> THEN [rd_ok |-> TRUE, wr_ok |-> TRUE] ELSE io

PMDone(op, arg, io, c) ==
    /\ io = Normal(io, c)
    /\ power_manager' = c.self
    /\ brightness_ctrl' = c.bc
    /\ pm_call' = PMCall(op, arg, io, c)

Tick ==
    /\ now < MaxTime
    /\ now' = now + 1
    /\ pm_call' = NoCall
    /\ UNCHANGED <<power_manager, brightness_ctrl, button, sm_vars, fs_vars, sp_vars, ap_vars>>

PMUpdateActivity ==
    \E io \in IO :
        /\ PMDone("update_activity", FALSE, io, update_activity(PMStart, now, io))
        /\ UNCHANGED <<button, now, sm_vars, fs_vars, sp_vars, ap_vars>>

PMCheckStandby ==
    \E motion_detected \in BOOLEAN, io \in IO :
        /\ PMDone("check_standby", motion_detected, io,
                  check_standby(PMStart, motion_detected, now, io))
        /\ UNCHANGED <<button, now, sm_vars, fs_vars, sp_vars, ap_vars>>

\* The button's edges alternate: a press is followed by a release.
PMEncoderButtonPressed ==
    \E io \in IO :
        /\ ~button.down
        /\ PMDone("encoder_button_pressed", FALSE, io,
                  encoder_button_pressed(PMStart, now, io))
        /\ button' = [down |-> TRUE, press_time |-> now,
                      press_state |-> power_manager.state]
        /\ UNCHANGED <<now, sm_vars, fs_vars, sp_vars, ap_vars>>

PMEncoderButtonReleased ==
    /\ button.down
    /\ PMDone("encoder_button_released", FALSE, [rd_ok |-> TRUE, wr_ok |-> TRUE],
              encoder_button_released(PMStart, now))
    /\ button' = ButtonUp
    /\ UNCHANGED <<now, sm_vars, fs_vars, sp_vars, ap_vars>>

\* settings_scene: the brightness mode is applied while the device is in use.
SettingsSetBrightness ==
    \E value \in ConfiguredLevels, io \in IO :
        /\ power_manager.state = STATE_ACTIVE
        /\ io.rd_ok
        /\ LET c == set_brightness(PMStart, value, io) IN
           /\ power_manager' = c.self
           /\ brightness_ctrl' = c.bc
           /\ pm_call' = PMCall("set_brightness", FALSE, io, c)
        /\ UNCHANGED <<button, now, sm_vars, fs_vars, sp_vars, ap_vars>>

(***************************************************************************)
(* hardware/camera_backend.py: CameraBackend, over the picamera2 library   *)
(* and over the legacy picamera library.                                   *)
(*                                                                         *)
(* A method of CameraBackend is a sequence of steps, each one statement    *)
(* that acts on the device or on a preview thread.  The main thread takes  *)
(* the steps one at a time (FSStep), so that the preview thread of the     *)
(* picamera backend interleaves with them.  A step that acts on the        *)
(* device may raise; the try block of the method then ends the call.       *)
(***************************************************************************)
CAMERA_LIB == {"picamera2", "picamera"}

\* Frames the device delivers, reads of a preview thread that fail, and
\* preview threads alive at a time.
MaxFrames == 2
MaxFailures == 2
MaxThreads == 2

Threads == 1..MaxThreads

\* started and mode are the device: whether it streams, and the
\* configuration (picamera2) or resolution (picamera) it is set to.  frames
\* counts the frames stored in _current_frame so far, and the frame stored
\* is known by its number; failures counts the reads the device refused.
\* session is the number of frames that had been stored when the preview was
\* last started: the frames of the present preview session have higher numbers.
CameraBackendInit(lib) ==
    [camera_lib |-> lib, is_running |-> FALSE, _stop_preview |-> FALSE,
     _preview_thread |-> 0, _current_frame |-> NoValue,
     started |-> FALSE, mode |-> "preview", frames |-> 0, failures |-> 0,
     session |-> 0]

\* A slot of threads holds no thread, or holds one that has run to its end.
NoThread == [pc |-> "none"]

Alive(thr) == {t \in Threads : thr[t].pc # "none"}

start_preview_unguarded(self) ==
    IF self.camera_lib = "picamera2" THEN <<"start_run">> ELSE <<"thread_start">>

start_preview(self) ==
    IF self.is_running THEN <<>>
    ELSE IF self.camera_lib = "picamera2" THEN <<"start_run">>
    ELSE <<"thread_start">>

stop_preview(self) ==
    IF ~self.is_running THEN <<>>
    ELSE IF self.camera_lib = "picamera2" THEN <<"stop_clear">>
    ELSE <<"signal", "join">>

capture_photo_early(self) ==
    LET was_running == self.is_running IN
    IF self.camera_lib = "picamera2"
    THEN (IF was_running THEN <<"stop">> ELSE <<>>)
         \o <<"start", "configure_still", "capture", "stop_still", "configure_preview">>
         \o (IF was_running THEN <<"start_run">> ELSE <<>>)
    ELSE <<"configure_still">>
         \o (IF was_running THEN stop_preview(self) ELSE <<>>)
         \o <<"capture", "configure_preview">>
         \o (IF was_running THEN <<"thread_start">> ELSE <<>>)

capture_photo(self) ==
    LET was_running == self.is_running IN
    IF self.camera_lib = "picamera2"
    THEN (IF was_running THEN <<"stop">> ELSE <<>>)
         \o <<"configure_still", "start", "capture", "stop_still", "configure_preview">>
         \o (IF was_running THEN <<"start_run">> ELSE <<>>)
    ELSE (IF was_running THEN stop_preview(self) ELSE <<>>)
         \o <<"configure_still", "capture", "configure_preview">>
         \o (IF was_running THEN <<"thread_start">> ELSE <<>>)

\* The steps that act on the device, and so may raise.
Fallible(step) == step \notin {"signal", "join", "thread_start"}

FreeThread(thr) ==
    CHOOSE t \in Threads :
        /\ t \notin Alive(thr)
        /\ \A u \in 1..(t - 1) : u \in Alive(thr)

CanDo(step, thr) == (step = "thread_start") => (Alive(thr) # Threads)

\* What a step that does not raise does to the backend and its threads.
\* join() returns when the thread has ended or after its timeout, and
\* stop_preview clears is_running in either case.
Do(step, self, thr) ==
    CASE step = "start_run" ->
           [camera |-> [self EXCEPT !.started = TRUE, !.is_running = TRUE,
                                    !.session = self.frames],
            threads |-> thr]
      [] step = "stop_clear" ->
           [camera |-> [self EXCEPT !.started = FALSE, !.is_running = FALSE],
            threads |-> thr]
      [] step \in {"stop", "stop_still"} ->
           [camera |-> [self EXCEPT !.started = FALSE], threads |-> thr]
      [] step = "start" ->
           [camera |-> [self EXCEPT !.started = TRUE], threads |-> thr]
      [] step = "configure_still" ->
           [camera |-> [self EXCEPT !.mode = "still"], threads |-> thr]
      [] step = "configure_preview" ->
           [camera |-> [self EXCEPT !.mode = "preview"], threads |-> thr]
      [] step = "capture" ->
           [camera |-> self, threads |-> thr]
      [] step = "signal" ->
           [camera |-> [self EXCEPT !._stop_preview = TRUE], threads |-> thr]
      [] step = "join" ->
           [camera |-> [self EXCEPT !.is_running = FALSE], threads |-> thr]
      [] step = "thread_start" ->
           LET t == FreeThread(thr) IN
           [camera |-> [self EXCEPT !._stop_preview = FALSE,
                                    !._preview_thread = t,
                                    !.is_running = TRUE,
                                    !.session = self.frames],
            threads |-> [thr EXCEPT ![t] = [pc |-> "check"]]]

\* get_preview_frame: the picamera2 backend reads the device itself, the
\* picamera backend returns what its preview thread stored last.
get_preview_frame(self, ok) ==
    IF ~self.is_running THEN [camera |-> self, frame |-> NoValue]
    ELSE IF self.camera_lib = "picamera2"
    THEN IF ok
         THEN [camera |-> [self EXCEPT !.frames = @ + 1,
                                       !._current_frame = self.frames + 1],
               frame |-> self.frames + 1]
         ELSE [camera |-> [self EXCEPT !.failures = @ + 1], frame |-> NoValue]
    ELSE [camera |-> self, frame |-> self._current_frame]

\* What the claims about start_preview and stop_preview call the state of
\* the FrameSource: the running flag and the acquisition loops.
FSState(self, thr) ==
    [is_running |-> self.is_running, started |-> self.started,
     _stop_preview |-> self._stop_preview,
     _preview_thread |-> self._preview_thread, loops |-> Alive(thr)]

FSCall(op, todo, prev) ==
    [op |-> op, todo |-> todo, was_running |-> camera.is_running,
     done |-> (todo = <<>>), ret |-> (todo = <<>>), frame |-> NoValue,
     stored |-> NoValue, log |-> <<>>, raised |-> "",
     pre |-> FSState(camera, threads), changed |-> FALSE, prev |-> prev]

\* What the next call keeps of this one: whether it was start_preview or
\* stop_preview, and whether a step of it raised.
Prev ==
    IF fs_call.op \in {"start_preview", "stop_preview"}
    THEN [op |-> fs_call.op, ret |-> fs_call.ret]
    ELSE [op |-> "other", ret |-> TRUE]

FSBegin(op, todo) ==
    /\ fs_call.done
    /\ fs_call' = FSCall(op, todo, Prev)
    /\ UNCHANGED <<camera, threads, frame_lock>>

FSStartPreview ==
    /\ FSBegin("start_preview", start_preview(camera))
    /\ UNCHANGED <<sm_vars, pm_vars, sp_vars, ap_vars>>

FSStopPreview ==
    /\ FSBegin("stop_preview", stop_preview(camera))
    /\ UNCHANGED <<sm_vars, pm_vars, sp_vars, ap_vars>>

FSCapturePhoto ==
    /\ FSBegin("capture_photo", capture_photo(camera))
    /\ UNCHANGED <<sm_vars, pm_vars, sp_vars, ap_vars>>

\* The main thread's next statement in the method it is in.
FSStep ==
    /\ ~fs_call.done
    /\ LET step == Head(fs_call.todo) IN
       /\ CanDo(step, threads)
       /\ \E ok \in BOOLEAN :
           /\ ok \/ Fallible(step)
           /\ LET d == IF ok THEN Do(step, camera, threads)
                       ELSE [camera |-> camera, threads |-> threads]
                  rest == IF ok THEN Tail(fs_call.todo) ELSE <<>>
              IN  /\ camera' = d.camera
                  /\ threads' = d.threads
                  /\ fs_call' = [fs_call EXCEPT
                         !.todo = rest,
                         !.done = (rest = <<>>),
                         !.ret = ok,
                         !.log = IF ok THEN Append(@, step) ELSE @,
                         !.raised = IF ok THEN @ ELSE step,
                         !.changed = (rest = <<>>)
                                     /\ FSState(d.camera, d.threads) # fs_call.pre]
    /\ UNCHANGED <<frame_lock, sm_vars, pm_vars, sp_vars, ap_vars>>

\* get_preview_frame.  The picamera backend takes _frame_lock for the copy;
\* the picamera2 backend reads the device, which may refuse.
FSGetPreviewFrame ==
    /\ fs_call.done
    /\ (camera.camera_lib = "picamera" /\ camera.is_running) => frame_lock = 0
    /\ \E ok \in BOOLEAN :
        /\ IF camera.camera_lib = "picamera2" /\ camera.is_running
           THEN IF ok THEN camera.frames < MaxFrames
                ELSE camera.failures < MaxFailures
           ELSE ok
        /\ LET r == get_preview_frame(camera, ok) IN
           /\ camera' = r.camera
           /\ fs_call' = [FSCall("get_preview_frame", <<>>, Prev)
                          EXCEPT !.frame = r.frame,
                                 !.stored = r.camera._current_frame]
    /\ UNCHANGED <<threads, frame_lock, sm_vars, pm_vars, sp_vars, ap_vars>>

(***************************************************************************)
(* _capture_preview_thread (picamera): one pass of the loop is the test of *)
(* the stop flag, the device read, and the store under _frame_lock.        *)
(***************************************************************************)
\* The threads that are in a read or hold a frame they have not stored yet.
Reading(thr) == {t \in Threads : thr[t].pc \in {"read", "lock", "store"}}

\* while not self._stop_preview: ... self.camera.capture(stream, ...)
LoopCheck(t) ==
    /\ threads[t].pc = "check"
    /\ IF camera._stop_preview
       THEN threads' = [threads EXCEPT ![t] = NoThread]
       ELSE /\ camera.frames + Cardinality(Reading(threads)) < MaxFrames
            /\ threads' = [threads EXCEPT ![t].pc = "read"]
    /\ UNCHANGED <<camera, frame_lock, fs_call, sm_vars, pm_vars, sp_vars, ap_vars>>

\* The read returns a frame, or raises and the bare except swallows it.
_capture_preview_thread(self, th, ok) ==
    IF ok
    THEN [camera |-> self, thread |-> [th EXCEPT !.pc = "lock"]]
    ELSE [camera |-> [self EXCEPT !.failures = @ + 1],
          thread |-> [th EXCEPT !.pc = "check"]]

LoopRead(t) ==
    /\ threads[t].pc = "read"
    /\ \E ok \in BOOLEAN :
        /\ ~ok => camera.failures < MaxFailures
        /\ LET r == _capture_preview_thread(camera, threads[t], ok) IN
           /\ camera' = r.camera
           /\ threads' = [threads EXCEPT ![t] = r.thread]
    /\ UNCHANGED <<frame_lock, fs_call, sm_vars, pm_vars, sp_vars, ap_vars>>

\* with self._frame_lock:
LoopLock(t) ==
    /\ threads[t].pc = "lock"
    /\ frame_lock = 0
    /\ frame_lock' = t
    /\ threads' = [threads EXCEPT ![t].pc = "store"]
    /\ UNCHANGED <<camera, fs_call, sm_vars, pm_vars, sp_vars, ap_vars>>

\* self._current_frame = frame.copy(), and the lock is released.
LoopStore(t) ==
    /\ threads[t].pc = "store"
    /\ camera' = [camera EXCEPT !.frames = @ + 1,
                                !._current_frame = camera.frames + 1]
    /\ frame_lock' = 0
    /\ threads' = [threads EXCEPT ![t].pc = "check"]
    /\ UNCHANGED <<fs_call, sm_vars, pm_vars, sp_vars, ap_vars>>

PreviewLoop == \E t \in Threads : LoopCheck(t) \/ LoopRead(t) \/ LoopLock(t) \/ LoopStore(t)

FSIdleWith(lib) ==
    /\ camera = CameraBackendInit(lib)
    /\ threads = [t \in Threads |-> NoThread]
    /\ frame_lock = 0
    /\ fs_call = [op |-> "init", todo |-> <<>>, was_running |-> FALSE,
                  done |-> TRUE, ret |-> TRUE, frame |-> NoValue,
                  stored |-> NoValue, log |-> <<>>, raised |-> "", pre |-> FSState(CameraBackendInit(lib),
                                                 [t \in Threads |-> NoThread]),
                  changed |-> FALSE, prev |-> [op |-> "other", ret |-> TRUE]]

FSInit == \E lib \in CAMERA_LIB : FSIdleWith(lib)

\* The backend as constructed and never used.
FSIdle == FSIdleWith("picamera2")

FSNext ==
    \/ FSStartPreview
    \/ FSStopPreview
    \/ FSCapturePhoto
    \/ FSStep
    \/ FSGetPreviewFrame
    \/ PreviewLoop

(***************************************************************************)
(* main.py: start-up of the application (main, CameraApp.__init__,         *)
(* _init_hardware_safe) and the SensorThread it starts.                    *)
(*                                                                         *)
(* Time is counted in units of 50 ms.  SensorThread's gates compare        *)
(* time.time(), seconds since the epoch, with timestamps that start at     *)
(* 0.0: every gate is open in the first pass of the loop, so the clock     *)
(* starts at StartTime, which is no less than the longest period.          *)
(***************************************************************************)
retries == 3

\* One pass of the for loop of _init_hardware_safe; ok says whether
\* CameraBackend(...) returned.  The backoff sleep is part of the pass.
_init_hardware_safe_sleepy(st, ok) ==
    IF ok
    THEN [st EXCEPT !.camera = TRUE, !.pc = "constructed",
                    !.log = Append(@, "construct")]
    ELSE [st EXCEPT !.attempt = @ + 1,
                    !.pc = IF st.attempt < retries THEN "construct" ELSE "raise",
                    !.log = @ \o <<"construct", "sleep">>]

_init_hardware_safe(st, ok) ==
    IF ok
    THEN [st EXCEPT !.camera = TRUE, !.pc = "constructed",
                    !.log = Append(@, "construct")]
    ELSE IF st.attempt < retries
    THEN [st EXCEPT !.attempt = @ + 1, !.log = @ \o <<"construct", "sleep">>]
    ELSE [st EXCEPT !.pc = "raise", !.log = Append(@, "construct")]

\* main(): app = CameraApp(), with the loop counter at its first value.
\* backend says whether the import of CameraBackend succeeded.
StartupInit(backend) ==
    [pc |-> "construct", backend |-> backend, attempt |-> 1, camera |-> FALSE,
     log |-> <<>>, exit_code |-> NoValue, lux |-> NoValue,
     battery |-> NoValue, bar |-> "idle"]

SensorNames == {"lux", "gyro", "battery"}

\* 1 / (0.2 s, 0.05 s, 1.0 s), in units of 50 ms.
LuxPeriod == 4
GyroPeriod == 1
BatteryPeriod == 20

Period(s) ==
    IF s = "lux" THEN LuxPeriod
    ELSE IF s = "gyro" THEN GyroPeriod ELSE BatteryPeriod

StartTime == 20
SPTicks == 4

\* What a sensor read returns.
Readings == {0, 1}

\* last and value hold last_lux, last_gyro, last_battery and lux_value,
\* tilt_angle, battery_percent; now is the local variable of run().
SensorThreadInit ==
    [pc |-> "new", running |-> FALSE, lock |-> FALSE, now |-> 0,
     last |-> [s \in SensorNames |-> 0],
     value |-> [s \in SensorNames |-> IF s = "gyro" THEN 0 ELSE NoValue]]

\* The section of the loop body after the one of sensor s.
After(s) == IF s = "lux" THEN "gyro" ELSE IF s = "gyro" THEN "battery" ELSE "while"

\* The tilt and battery reads are made inside "with self.lock", the
\* illuminance read before it.
LockedRead(s) == s # "lux"

\* if now - self.last_x >= period: if sensor and sensor.available: ...
run_ungated(self, hw, s) ==
    IF self.now - self.last[s] >= Period(s)
    THEN [self |-> [self EXCEPT !.pc = "read", !.lock = LockedRead(s)],
          hw |-> [hw EXCEPT !.reading = s, !.polled = @ \cup {s}]]
    ELSE [self |-> [self EXCEPT !.pc = After(s)], hw |-> hw]

\* The same without the comparison of the elapsed time.
run_eager(self, hw, s) ==
    IF hw.available[s]
    THEN [self |-> [self EXCEPT !.pc = "read", !.lock = LockedRead(s)],
          hw |-> [hw EXCEPT !.reading = s, !.polled = @ \cup {s}]]
    ELSE [self |-> [self EXCEPT !.last[s] = self.now, !.pc = After(s)],
          hw |-> hw]

run(self, hw, s) ==
    IF self.now - self.last[s] >= Period(s)
    THEN IF hw.available[s]
         THEN [self |-> [self EXCEPT !.pc = "read", !.lock = LockedRead(s)],
               hw |-> [hw EXCEPT !.reading = s, !.polled = @ \cup {s}]]
         ELSE [self |-> [self EXCEPT !.last[s] = self.now, !.pc = After(s)],
               hw |-> hw]
    ELSE [self |-> [self EXCEPT !.pc = After(s)], hw |-> hw]

AppInitCamera ==
    /\ startup.pc = "construct"
    /\ IF startup.backend
       THEN \E ok \in BOOLEAN : startup' = _init_hardware_safe(startup, ok)
       ELSE startup' = [startup EXCEPT !.pc = "raise"]
    /\ UNCHANGED <<sensor_thread, sensors, now, sm_vars, fs_vars,
                   power_manager, brightness_ctrl, button, pm_call, ap_vars>>

\* The RuntimeError leaves CameraApp.__init__, and main() exits with 1.
AppFatal ==
    /\ startup.pc = "raise"
    /\ startup' = [startup EXCEPT !.pc = "exit", !.exit_code = 1]
    /\ UNCHANGED <<sensor_thread, sensors, now, sm_vars, fs_vars,
                   power_manager, brightness_ctrl, button, pm_call, ap_vars>>

\* self.sensor_thread = SensorThread(self); self.sensor_thread.start()
AppStartSensorThread ==
    /\ startup.pc = "constructed"
    /\ startup' = [startup EXCEPT !.pc = "run"]
    /\ sensor_thread' = [sensor_thread EXCEPT !.pc = "start"]
    /\ UNCHANGED <<sensors, now, sm_vars, fs_vars,
                   power_manager, brightness_ctrl, button, pm_call, ap_vars>>

\* _render_info_bar(): battery_pct = self.app.sensor_thread.get_battery().
\* startup.bar follows the drawing of the info bar: "lux" between its two
\* reads, "dirty" once the loop has written a field the bar shows since the
\* first read, "torn" when the second read was made after such a write.
AppGetBattery ==
    /\ startup.pc = "run"
    /\ startup.bar \in {"idle", "torn"}
    /\ ~sensor_thread.lock
    /\ startup' = [startup EXCEPT !.battery = sensor_thread.value["battery"],
                                  !.bar = "lux"]
    /\ UNCHANGED <<sensor_thread, sensors, now, sm_vars, fs_vars,
                   power_manager, brightness_ctrl, button, pm_call, ap_vars>>

\* get_lux(), from the main loop: the second read of _render_info_bar(),
\* or the read of the automatic flash.
AppGetLux ==
    /\ startup.pc = "run"
    /\ ~sensor_thread.lock
    /\ startup' = [startup EXCEPT !.lux = sensor_thread.value["lux"],
                                  !.bar = IF @ = "lux" THEN "idle"
                                          ELSE IF @ = "dirty" THEN "torn" ELSE @]
    /\ UNCHANGED <<sensor_thread, sensors, now, sm_vars, fs_vars,
                   power_manager, brightness_ctrl, button, pm_call, ap_vars>>

\* cleanup() / _execute_shutdown(): self.sensor_thread.stop()
AppStopSensorThread ==
    /\ startup.pc = "run"
    /\ startup' = [startup EXCEPT !.pc = "stopped"]
    /\ sensor_thread' = [sensor_thread EXCEPT !.running = FALSE]
    /\ UNCHANGED <<sensors, now, sm_vars, fs_vars,
                   power_manager, brightness_ctrl, button, pm_call, ap_vars>>

SensorTick ==
    /\ startup.pc \in {"run", "stopped"}
    /\ now < StartTime + SPTicks
    /\ now' = now + 1
    /\ UNCHANGED <<sp_vars, sm_vars, fs_vars,
                   power_manager, brightness_ctrl, button, pm_call, ap_vars>>

\* run(): self.running = True
SPRun ==
    /\ sensor_thread.pc = "start"
    /\ sensor_thread' = [sensor_thread EXCEPT !.running = TRUE, !.pc = "while"]
    /\ UNCHANGED <<startup, sensors, now, sm_vars, fs_vars,
                   power_manager, brightness_ctrl, button, pm_call, ap_vars>>

\* while self.running: now = time.time()
SPWhile ==
    /\ sensor_thread.pc = "while"
    /\ sensor_thread' =
           IF sensor_thread.running
           THEN [sensor_thread EXCEPT !.now = now, !.pc = "lux"]
           ELSE [sensor_thread EXCEPT !.pc = "done"]
    /\ UNCHANGED <<startup, sensors, now, sm_vars, fs_vars,
                   power_manager, brightness_ctrl, button, pm_call, ap_vars>>

SPGate ==
    /\ sensor_thread.pc \in SensorNames
    /\ LET r == run(sensor_thread, sensors, sensor_thread.pc) IN
       /\ sensor_thread' = r.self
       /\ sensors' = r.hw
    /\ UNCHANGED <<startup, now, sm_vars, fs_vars,
                   power_manager, brightness_ctrl, button, pm_call, ap_vars>>

\* What the read of sensor s hands to the loop: v when the bus answers.
\* read_percentage() returns None when the read raises.  _read_raw() and
\* _read_raw_rotation() return zeros when the read raises, and read_lux()
\* and update_tilt() feed them into the running value like any sample,
\* which moves it to the lower level.
read_sensor(s, ok, v) ==
    IF ok THEN v
    ELSE IF s = "battery" THEN NoValue ELSE 0

\* The read returns; the value is written and the lock released.
\* sensors.good is the value of the last read of each sensor that
\* succeeded.
SPRead ==
    /\ sensor_thread.pc = "read"
    /\ \E ok \in BOOLEAN, v \in Readings :
        LET s == sensors.reading IN
        /\ sensor_thread' = [sensor_thread EXCEPT !.value[s] = read_sensor(s, ok, v),
                                                  !.lock = FALSE,
                                                  !.last[s] = sensor_thread.now,
                                                  !.pc = After(s)]
        /\ sensors' = [sensors EXCEPT !.reading = "none",
                                      !.good[s] = IF ok THEN v ELSE @]
        /\ startup' = [startup EXCEPT !.bar =
                          IF @ = "lux" /\ s # "gyro"
                             /\ read_sensor(s, ok, v) # sensor_thread.value[s]
                          THEN "dirty" ELSE @]
    /\ UNCHANGED <<now, sm_vars, fs_vars,
                   power_manager, brightness_ctrl, button, pm_call, ap_vars>>

SPLoop == SPRun \/ SPWhile \/ SPGate \/ SPRead

SPIdle ==
    /\ startup = StartupInit(TRUE)
    /\ sensor_thread = SensorThreadInit
    /\ sensors = [available |-> [s \in SensorNames |-> FALSE],
                  reading |-> "none", polled |-> {},
                  good |-> SensorThreadInit.value]

SPInit ==
    /\ \E backend \in BOOLEAN : startup = StartupInit(backend)
    /\ sensor_thread = SensorThreadInit
    /\ \E av \in [SensorNames -> BOOLEAN] :
           sensors = [available |-> av, reading |-> "none", polled |-> {},
                      good |-> SensorThreadInit.value]

SPNext ==
    \/ AppInitCamera
    \/ AppFatal
    \/ AppStartSensorThread
    \/ AppGetBattery
    \/ AppGetLux
    \/ AppStopSensorThread
    \/ SensorTick
    \/ SPLoop

(***************************************************************************)
(* main.py: CameraApp.run, the main loop.  One pass of the while loop is a *)
(* tick; its phases are taken one at a time, since the callbacks of the    *)
(* encoder button run on another thread and may set the power manager to   *)
(* Shutdown, or wake it, between any two of them.  The log of a tick lists *)
(* what the tick did, each entry with the power state at that moment.      *)
(***************************************************************************)
\* _init_scenes(): the states that have a scene.
scenes == {"BOOT", "CAMERA", "SETTINGS", "GALLERY"}

\* Mutant: the shutdown test is made after the events are handled.
CameraApp_run_late == <<"standby", "events", "shutdown", "skip", "update", "render", "frame_end">>

\* The phases of one pass of the loop, in the order of the code.
CameraApp_run == <<"shutdown", "standby", "events", "skip", "update", "render", "frame_end">>

\* The period of the standby check, in seconds.
StandbyCheckPeriod == 2

\* pygame events, as far as the loop tells them apart.
Events == {"none", "QUIT", "KEYDOWN", "K_ESCAPE"}

\* What CameraScene.render finds: the freeze frame showing, a preview frame,
\* or no frame.
Views == {"freeze", "frame", "none"}

CameraAppInit ==
    [pc |-> "while", running |-> TRUE, frame_skip |-> FALSE,
     last_standby_check |-> 0, todo |-> <<>>, scene |-> None, log |-> <<>>,
     shutdowns |-> 0, shutdown_at_start |-> FALSE]

Entry(phase) == [phase |-> phase, state |-> power_manager.state]

Logged(a, phase) == [a EXCEPT !.log = Append(@, Entry(phase))]

Phases(a) == {a.log[i].phase : i \in 1..Len(a.log)}

\* The next phase of the tick.
Advance(a) == [a EXCEPT !.todo = Tail(@),
                        !.pc = IF Len(a.todo) = 1 THEN "while" ELSE "tick"]

\* "continue": the rest of the pass is left out.
Continue(a) == [a EXCEPT !.todo = <<>>, !.pc = "while"]

AtPhase(phase) == app.pc = "tick" /\ Head(app.todo) = phase

PMOnly(c) ==
    /\ power_manager' = c.self
    /\ brightness_ctrl' = c.bc

\* Mutant: the scene is rendered whatever the power state.
render_always(a, view) ==
    IF a.scene = None THEN Logged(a, "no_scene")
    ELSE LET a1 == Logged(a, "render") IN
         IF a.scene # "CAMERA" \/ view = "freeze" THEN a1
         ELSE IF view = "frame"
         THEN Logged(Logged(a1, "pull"), "filter")
         ELSE Logged(a1, "pull")

\* if not self.power_manager.is_standby(): scene.render(...) ... else: black.
\* CameraScene.render calls get_preview_frame() unless the freeze frame is
\* showing, and process_frame() on the frame it got.
render(a, view) ==
    IF power_manager.state = STATE_STANDBY THEN Logged(a, "black")
    ELSE IF a.scene = None THEN Logged(a, "no_scene")
    ELSE LET a1 == Logged(a, "render") IN
         IF a.scene # "CAMERA" \/ view = "freeze" THEN a1
         ELSE IF view = "frame"
         THEN Logged(Logged(a1, "pull"), "filter")
         ELSE Logged(a1, "pull")

\* while self.running:
RunWhile ==
    /\ app.pc = "while"
    /\ app' = IF app.running
              THEN [app EXCEPT !.pc = "tick", !.todo = CameraApp_run, !.log = <<>>,
                               !.scene = None,
                               !.shutdown_at_start =
                                   (power_manager.state = STATE_SHUTDOWN)]
              ELSE [app EXCEPT !.pc = "cleanup"]
    /\ UNCHANGED <<flash_led, filter_engine, input, sm_vars, pm_vars, fs_vars, sp_vars>>

\* if self.power_manager.is_shutdown(): self._execute_shutdown(); break
RunShutdownCheck ==
    /\ AtPhase("shutdown")
    /\ app' = IF power_manager.state = STATE_SHUTDOWN
              THEN [Logged(app, "shutdown") EXCEPT !.shutdowns = @ + 1,
                                                   !.running = FALSE,
                                                   !.todo = <<>>,
                                                   !.pc = "cleanup"]
              ELSE Advance(app)
    /\ UNCHANGED <<flash_led, filter_engine, input, sm_vars, pm_vars, fs_vars, sp_vars>>

\* if now - self.last_standby_check >= 2.0: check_standby(motion)
RunStandbyCheck ==
    /\ AtPhase("standby")
    /\ IF now - app.last_standby_check >= StandbyCheckPeriod
       THEN \E motion \in BOOLEAN :
              /\ PMOnly(check_standby(PMStart, motion, now,
                                      [rd_ok |-> TRUE, wr_ok |-> TRUE]))
              /\ app' = [Advance(Logged(app, "standby_check")) EXCEPT
                            !.last_standby_check = now]
       ELSE /\ app' = Advance(app)
            /\ UNCHANGED <<power_manager, brightness_ctrl>>
    /\ UNCHANGED <<button, now, pm_call, flash_led, filter_engine, input,
                   sm_vars, fs_vars, sp_vars>>

\* for event in pygame.event.get(): one event, or none, per pass.  A key
\* other than Escape goes to the scene, which may ask for another scene.
RunEvents ==
    /\ AtPhase("events")
    /\ \E ev \in Events, request \in {OtherEvent, "OPEN_SETTINGS", "BACK_TO_CAMERA"} :
        LET woken == update_activity(PMStart, now, [rd_ok |-> TRUE, wr_ok |-> TRUE])
            a == Advance(Logged(app, "events"))
        IN
        /\ ev \in {"none", "QUIT", "K_ESCAPE"} => request = OtherEvent
        /\ IF ev = "none"
           THEN /\ app' = Advance(app)
                /\ UNCHANGED <<power_manager, brightness_ctrl, state_machine>>
           ELSE IF ev = "QUIT"
           THEN /\ app' = [a EXCEPT !.running = FALSE]
                /\ UNCHANGED <<power_manager, brightness_ctrl, state_machine>>
           ELSE IF power_manager.state = STATE_STANDBY
           THEN /\ request = OtherEvent
                /\ app' = a
                /\ PMOnly(woken)
                /\ UNCHANGED state_machine
           ELSE /\ app' = [a EXCEPT !.running = (ev # "K_ESCAPE") /\ @]
                /\ PMOnly(woken)
                /\ state_machine' =
                       IF state_machine.current_state \in scenes
                       THEN handle_event(state_machine, request).self
                       ELSE state_machine
    /\ UNCHANGED <<sm_call, button, now, pm_call, flash_led, filter_engine, input,
                   fs_vars, sp_vars>>

\* if frame_skip: frame_skip = False; continue
RunSkip ==
    /\ AtPhase("skip")
    /\ app' = IF app.frame_skip
              THEN [Continue(Logged(app, "skipped")) EXCEPT !.frame_skip = FALSE]
              ELSE Advance(app)
    /\ UNCHANGED <<flash_led, filter_engine, input, sm_vars, pm_vars, fs_vars, sp_vars>>

\* scene = self.scenes.get(...); if scene: scene.update(dt).  The boot scene
\* announces BOOT_COMPLETE from its update when its animation is over.
RunUpdate ==
    /\ AtPhase("update")
    /\ LET scene == IF state_machine.current_state \in scenes
                    THEN state_machine.current_state ELSE None
       IN
       /\ app' = [(IF scene = None THEN Advance(app)
                   ELSE Advance(Logged(app, "update"))) EXCEPT !.scene = scene]
       /\ \E complete \in BOOLEAN :
            /\ complete => scene = "BOOT"
            /\ state_machine' =
                   IF complete
                   THEN handle_event(state_machine, "BOOT_COMPLETE").self
                   ELSE state_machine
    /\ UNCHANGED <<sm_call, flash_led, filter_engine, input, pm_vars, fs_vars, sp_vars>>

RunRender ==
    /\ AtPhase("render")
    /\ \E view \in Views :
        /\ (app.scene # "CAMERA" \/ power_manager.state = STATE_STANDBY)
              => view = "none"
        /\ app' = Advance(render(app, view))
    /\ UNCHANGED <<flash_led, filter_engine, input, sm_vars, pm_vars, fs_vars, sp_vars>>

\* self.perf_monitor.frame_end(); if should_skip_frame(...): frame_skip = True
RunFrameEnd ==
    /\ AtPhase("frame_end")
    /\ \E skip \in BOOLEAN :
        app' = [Advance(Logged(app, "frame_end")) EXCEPT
                   !.frame_skip = skip \/ @]
    /\ UNCHANGED <<flash_led, filter_engine, input, sm_vars, pm_vars, fs_vars, sp_vars>>

\* finally: self.cleanup()
RunCleanup ==
    /\ app.pc = "cleanup"
    /\ app' = [app EXCEPT !.pc = "exit"]
    /\ UNCHANGED <<flash_led, filter_engine, input, sm_vars, pm_vars, fs_vars, sp_vars>>

\* _encoder_button_release(), on the thread of the button: a long press in
\* Active asks for shutdown, and the state machine is told.
RunEncoderButtonRelease ==
    /\ button.down
    /\ LET c == encoder_button_released(PMStart, now) IN
       /\ PMOnly(c)
       /\ state_machine' =
              IF c.ret THEN handle_event(state_machine, "SHUTDOWN_REQUEST").self
              ELSE state_machine
    /\ button' = ButtonUp
    /\ UNCHANGED <<sm_call, now, pm_call, ap_vars, fs_vars, sp_vars>>

\* The scenes that have handle_encoder_rotation: zoom in the camera scene,
\* the selected setting or its value in the settings scene, the photo shown
\* in the gallery.
RotationScenes == {"CAMERA", "SETTINGS", "GALLERY"}

\* _encoder_cw() / _encoder_ccw(), on the thread of the encoder: the
\* activity is recorded, then the scene of the current state is handed the
\* rotation.  The call record tells whether a scene acted on it.
RunEncoderRotate ==
    \E delta \in {1, -1} :
        LET io == [rd_ok |-> TRUE, wr_ok |-> TRUE]
            c == update_activity(PMStart, now, io)
            acted == state_machine.current_state \in RotationScenes
        IN
        /\ PMDone("_encoder_rotate", delta > 0, io, [c EXCEPT !.ret = acted])
        /\ UNCHANGED <<button, now, sm_vars, fs_vars, sp_vars, ap_vars>>

\* _shutter_press(), on the thread of the shutter button: the activity is
\* recorded, then the camera scene takes a photo if the state is Camera.
\* The call record tells whether _capture_photo was called.
RunShutterPress ==
    LET io == [rd_ok |-> TRUE, wr_ok |-> TRUE]
        c == update_activity(PMStart, now, io)
        captured == state_machine.current_state = "CAMERA"
    IN
    /\ PMDone("_shutter_press", FALSE, io, [c EXCEPT !.ret = captured])
    /\ UNCHANGED <<button, now, sm_vars, fs_vars, sp_vars, ap_vars>>

RunLoop ==
    \/ RunWhile
    \/ RunShutdownCheck
    \/ RunStandbyCheck
    \/ RunEvents
    \/ RunSkip
    \/ RunUpdate
    \/ RunRender
    \/ RunFrameEnd
    \/ RunCleanup

AppIdle == app = CameraAppInit

\* The scenes' callbacks are registered before the loop starts.
RunInit ==
    /\ app = CameraAppInit
    /\ state_machine = [StateMachineInit("BOOT") EXCEPT
                            !.on_enter_callbacks = scenes,
                            !.on_exit_callbacks = scenes]
    /\ sm_call = [op |-> "init", arg |-> "BOOT", ret |-> FALSE,
                  pre |-> StateMachineInit("BOOT"), hooks |-> <<>>]

RunNext ==
    \/ RunLoop
    \/ Tick
    \/ PMEncoderButtonPressed
    \/ RunEncoderButtonRelease

\* The main loop with the callbacks of the encoder and the shutter button.
WakeNext ==
    \/ RunLoop
    \/ Tick
    \/ RunEncoderRotate
    \/ RunShutterPress

(***************************************************************************)
(* hardware/flash_led.py.  on() and off() are called from the thread of    *)
(* the shutter button (CameraScene._capture_photo); every watchdog is a    *)
(* threading.Timer, whose thread calls off() when the timer expires.  The  *)
(* methods take no lock, so their statements interleave.                   *)
(***************************************************************************)
MaxTimers == 2      \* the Timer objects created in one run

Timers == 1..MaxTimers

\* The thread that calls on() and off().
Caller == 0

FlashThreads == {Caller} \cup Timers

FlashLEDInit ==
    [led |-> FALSE, _is_on |-> FALSE, _watchdog_timer |-> 0,
     timers |-> [t \in Timers |-> "new"],
     calls |-> [th \in FlashThreads |-> <<>>]]

\* on(): if not self._is_on: self.led.on(); self._is_on = True;
\* self._start_watchdog(), which cancels the old timer and starts a new one.
on(self) ==
    IF ~self._is_on THEN <<"led_on", "set_is_on", "cancel", "arm">> ELSE <<>>

\* off(): if self._is_on: self.led.off(); self._is_on = False;
\* self._cancel_watchdog()
off(self) ==
    IF self._is_on THEN <<"led_off", "clear_is_on", "cancel">> ELSE <<>>

\* _cancel_watchdog(): cancel() stops a timer that is still waiting and
\* does nothing to one that has expired.
_cancel_watchdog(self) ==
    IF self._watchdog_timer # 0
    THEN [self EXCEPT !.timers[self._watchdog_timer] =
                          IF @ = "armed" THEN "cancelled" ELSE @,
                      !._watchdog_timer = 0]
    ELSE self

UnusedTimers(self) == {t \in Timers : self.timers[t] = "new"}

\* One statement of on() or off().
FlashDo(step, self) ==
    CASE step = "led_on"      -> [self EXCEPT !.led = TRUE]
      [] step = "set_is_on"   -> [self EXCEPT !._is_on = TRUE]
      [] step = "led_off"     -> [self EXCEPT !.led = FALSE]
      [] step = "clear_is_on" -> [self EXCEPT !._is_on = FALSE]
      [] step = "cancel"      -> _cancel_watchdog(self)
      [] step = "arm"         ->
            LET t == CHOOSE t \in UnusedTimers(self) :
                         \A u \in UnusedTimers(self) : t <= u
            IN  [self EXCEPT !.timers[t] = "armed", !._watchdog_timer = t]

\* The caller enters on() or off() and makes the test of _is_on.
FlashOn ==
    /\ flash_led.calls[Caller] = <<>>
    /\ UnusedTimers(flash_led) # {}
    /\ flash_led' = [flash_led EXCEPT !.calls[Caller] = on(flash_led)]
    /\ UNCHANGED <<app, filter_engine, input, sm_vars, pm_vars, fs_vars, sp_vars>>

FlashOff ==
    /\ flash_led.calls[Caller] = <<>>
    /\ flash_led' = [flash_led EXCEPT !.calls[Caller] = off(flash_led)]
    /\ UNCHANGED <<app, filter_engine, input, sm_vars, pm_vars, fs_vars, sp_vars>>

\* The maximum duration has passed: the timer's thread starts.
FlashExpire ==
    \E t \in Timers :
        /\ flash_led.timers[t] = "armed"
        /\ flash_led' = [flash_led EXCEPT !.timers[t] = "expired"]
        /\ UNCHANGED <<app, filter_engine, input, sm_vars, pm_vars, fs_vars, sp_vars>>

\* _watchdog_timeout(): self.off(), on the timer's thread.
FlashTimeout ==
    \E t \in Timers :
        /\ flash_led.timers[t] = "expired"
        /\ flash_led' = [flash_led EXCEPT !.timers[t] = "fired",
                                          !.calls[t] = off(flash_led)]
        /\ UNCHANGED <<app, filter_engine, input, sm_vars, pm_vars, fs_vars, sp_vars>>

FlashStep ==
    \E th \in FlashThreads :
        /\ flash_led.calls[th] # <<>>
        /\ flash_led' = [FlashDo(Head(flash_led.calls[th]), flash_led) EXCEPT
                             !.calls[th] = Tail(flash_led.calls[th])]
        /\ UNCHANGED <<app, filter_engine, input, sm_vars, pm_vars, fs_vars, sp_vars>>

FlashIdle == flash_led = FlashLEDInit

FlashNext == FlashOn \/ FlashOff \/ FlashExpire \/ FlashTimeout \/ FlashStep

(***************************************************************************)
(* filters/filter_engine.py.  Every operation of the engine works on each  *)
(* pixel by itself, so a frame is one pixel <<r, g, b>> of uint8 values.   *)
(* A call returns what the caller can observe: the returned frame (out),   *)
(* whether it is the array that was passed in (alias), the content of the  *)
(* array that was passed in after the call (input), and whether a value    *)
(* outside 0..255 was cast to uint8 (wrapped).                             *)
(*                                                                         *)
(* The products are floating-point products truncated by the cast.  For a  *)
(* factor p/100 the result is the whole part of x*p/100, except where the  *)
(* exact product is a whole number and the rounded one falls just below    *)
(* it; Below32, Below64 and GrayBelow list these inputs, for float32 and   *)
(* float64 arithmetic and the factors the code uses.                       *)
(***************************************************************************)
FilterType == {"none", "night_vision", "red", "green", "pink", "warm", "cold",
               "monochrom", "orange", "yellow"}

\* The channel values frames are drawn from.
Levels == {0, 1, 2, 100, 255}

Frames == {<<r, g, b>> : r \in Levels, g \in Levels, b \in Levels}

\* The ISO values of the settings, and one the gain map does not hold.
ISOValues == {100, 200, 400, 800}

OtherISO == 1600

Min(a, b) == IF a < b THEN a ELSE b

\* x.astype(np.uint8), for a whole number x.
astype_uint8(x) == x % 256

Below32(pct) == IF pct = 130 THEN {90, 170, 180, 190} ELSE {}

Below64(pct) ==
    IF pct = 70 THEN {90, 170, 180}
    ELSE IF pct = 115 THEN {100, 180, 200, 220} ELSE {}

\* Gray levels g for which 0.299*g + 0.587*g + 0.114*g is below g.  For the
\* pixels reached from Frames the weighted sum is a whole number only when
\* the three channels are equal.
GrayBelow == {1, 2, 4, 8, 11, 13, 16, 22, 26, 27, 32, 39, 44, 51, 52, 54, 57, 59,
              61, 64, 78, 81, 88, 91, 95, 101, 102, 104, 108, 114, 115, 118, 122,
              127, 128, 143, 149, 156, 157, 162, 169, 175, 176, 182, 183, 190,
              195, 202, 203, 204, 208, 209, 216, 223, 225, 228, 230, 235, 236,
              239, 241, 244, 249, 251, 254}

\* int(x * p/100), the product rounded as the hardware rounds it.
Product(x, pct, below) ==
    LET q == (x * pct) \div 100 IN IF x \in below THEN q - 1 ELSE q

\* np.clip(x.astype(np.float32) * f, 0, 255), before the cast.
clip_scale(x, pct) == Min(255, Product(x, pct, Below32(pct)))

\* x * f on a uint8 array, in float64, before the cast.
scale(x, pct) == Product(x, pct, Below64(pct))

\* (0.299 * R + 0.587 * G + 0.114 * B).astype(np.uint8)
gray(p) ==
    LET q == (299 * p[1] + 587 * p[2] + 114 * p[3]) \div 1000 IN
    astype_uint8(IF p[1] = p[2] /\ p[2] = p[3] /\ p[1] \in GrayBelow
                 THEN q - 1 ELSE q)

\* _build_luts(): the rows of the warm and the cold table.
warm_lut ==
    [i \in 0..255 |->
        <<Min(255, scale(i, 115)), Min(255, scale(i, 105)), scale(i, 90)>>]

cold_lut ==
    [i \in 0..255 |-> <<scale(i, 90), Min(255, i), Min(255, scale(i, 120))>>]

\* The result of a call that made a new array of the values v.
Fresh(frame, v) ==
    [out |-> <<astype_uint8(v[1]), astype_uint8(v[2]), astype_uint8(v[3])>>,
     alias |-> FALSE, input |-> frame,
     wrapped |-> \E c \in 1..3 : v[c] \notin 0..255]

Same(frame) == [out |-> frame, alias |-> TRUE, input |-> frame, wrapped |-> FALSE]

_apply_lut_per_channel(frame, lut) ==
    <<lut[frame[1]][1], lut[frame[2]][2], lut[frame[3]][3]>>

apply_filter(frame, filter_type) ==
    IF filter_type = "none" THEN Same(frame)
    ELSE Fresh(frame,
        CASE filter_type = "monochrom" ->
                <<gray(frame), gray(frame), gray(frame)>>
          [] filter_type = "night_vision" ->
                LET boosted == astype_uint8(clip_scale(gray(frame), 150)) IN
                <<boosted \div 4, boosted, boosted \div 4>>
          [] filter_type = "red" ->
                <<clip_scale(frame[1], 150), scale(frame[2], 50), scale(frame[3], 50)>>
          [] filter_type = "green" ->
                <<scale(frame[1], 50), clip_scale(frame[2], 150), scale(frame[3], 50)>>
          [] filter_type = "pink" ->
                <<clip_scale(frame[1], 130), scale(frame[2], 80),
                  clip_scale(frame[3], 120)>>
          [] filter_type = "warm" -> _apply_lut_per_channel(frame, warm_lut)
          [] filter_type = "cold" -> _apply_lut_per_channel(frame, cold_lut)
          [] filter_type = "orange" ->
                <<clip_scale(frame[1], 140), clip_scale(frame[2], 110),
                  scale(frame[3], 60)>>
          [] filter_type = "yellow" ->
                <<clip_scale(frame[1], 130), clip_scale(frame[2], 130),
                  scale(frame[3], 70)>>
          [] OTHER -> frame)

\* Mutant: the table is shifted by one row.
gain_map_shifted(iso_value) ==
    CASE iso_value = 100 -> 70
      [] iso_value = 200 -> 70
      [] iso_value = 400 -> 85
      [] iso_value = 800 -> 100
      [] OTHER           -> 100

\* gain_map.get(iso_value, 1.0), in hundredths.
gain_map(iso_value) ==
    CASE iso_value = 100 -> 70
      [] iso_value = 200 -> 85
      [] iso_value = 400 -> 100
      [] iso_value = 800 -> 130
      [] OTHER           -> 100

\* Mutant: the gain is applied without np.clip.
apply_iso_gain_unclipped(frame, iso_value) ==
    LET gain == gain_map(iso_value) IN
    IF gain = 100 THEN Same(frame)
    ELSE Fresh(frame, <<Product(frame[1], gain, Below32(gain)),
                        Product(frame[2], gain, Below32(gain)),
                        Product(frame[3], gain, Below32(gain))>>)

apply_iso_gain(frame, iso_value) ==
    LET gain == gain_map(iso_value) IN
    IF gain = 100 THEN Same(frame)
    ELSE Fresh(frame, <<clip_scale(frame[1], gain), clip_scale(frame[2], gain),
                        clip_scale(frame[3], gain)>>)

process_frame(frame, filter_type, iso_value) ==
    LET processed == apply_iso_gain(frame, iso_value)
        filtered == apply_filter(processed.out, filter_type)
    IN  [out |-> filtered.out,
         alias |-> processed.alias /\ filtered.alias,
         input |-> IF processed.alias THEN filtered.input ELSE processed.input,
         wrapped |-> processed.wrapped \/ filtered.wrapped]

\* The engine with a frame at hand and no call made yet.
FilterEngineInit(frame) ==
    [op |-> "none", frame |-> frame, filter_type |-> None, iso_value |-> 400,
     result |-> Same(frame), first |-> <<>>]

\* process_frame(frame, filter_type, iso_value); the selector may be None.
\* The engine keeps nothing from one call to the next, so one call is made
\* on each frame.
FEProcessFrame ==
    /\ filter_engine.op = "none"
    /\ \E filter_type \in FilterType \cup {None},
          iso_value \in ISOValues \cup {OtherISO} :
        filter_engine' =
            [filter_engine EXCEPT
                !.op = "process_frame", !.filter_type = filter_type,
                !.iso_value = iso_value, !.first = <<>>,
                !.result = process_frame(filter_engine.frame, filter_type, iso_value)]
    /\ UNCHANGED <<app, flash_led, input, sm_vars, pm_vars, fs_vars, sp_vars>>

\* apply_filter(frame, filter_type)
FEApplyFilter ==
    /\ filter_engine.op = "none"
    /\ \E filter_type \in FilterType :
        filter_engine' =
            [filter_engine EXCEPT
                !.op = "apply_filter", !.filter_type = filter_type,
                !.iso_value = 400, !.first = <<>>,
                !.result = apply_filter(filter_engine.frame, filter_type)]
    /\ UNCHANGED <<app, flash_led, input, sm_vars, pm_vars, fs_vars, sp_vars>>

\* apply_filter(x, filter_type) on the frame x the last call returned.
FEApplyFilterAgain ==
    /\ filter_engine.op = "apply_filter"
    /\ filter_engine' =
           [filter_engine EXCEPT
               !.op = "apply_filter_again",
               !.first = filter_engine.result.out,
               !.result = apply_filter(filter_engine.result.out,
                                       filter_engine.filter_type)]
    /\ UNCHANGED <<app, flash_led, input, sm_vars, pm_vars, fs_vars, sp_vars>>

FilterIdle == filter_engine = FilterEngineInit(<<0, 0, 0>>)

FilterInit == \E frame \in Frames : filter_engine = FilterEngineInit(frame)

FilterNext == FEProcessFrame \/ FEApplyFilter \/ FEApplyFilterAgain

(***************************************************************************)
(* The threads that drive the state machine and the camera scene.  The     *)
(* main thread runs handle_event for the events of the tick, the thread of *)
(* the encoder button runs it for the shutdown request, and the thread of  *)
(* the shutter button runs _shutter_press with CameraScene._capture_photo. *)
(* StateMachine takes no lock, so transition() is taken statement by       *)
(* statement; the callbacks of the camera scene start and stop the preview *)
(* of the picamera2 backend.                                               *)
(***************************************************************************)
MaxShots == 2       \* presses of the shutter button in one run

TrThreads == {"main", "button"}

TrIdle == [pc |-> "idle", target |-> None]

ShotIdle == [pc |-> "idle", use_flash |-> FALSE, frame |-> FALSE, log |-> <<>>]

InputInit == [tr |-> [th \in TrThreads |-> TrIdle], shot |-> ShotIdle, shots |-> 0]

\* A method of the backend called from a scene: its device statement is
\* made, or raises and the method's except clause swallows it.
CallCamera(todo, self, ok) ==
    IF todo = <<>> \/ ~ok THEN self ELSE Do(Head(todo), self, threads).camera

\* CameraScene.on_enter: if self.app.camera: self.app.camera.start_preview()
CameraScene_on_enter(self, ok) == CallCamera(start_preview(self), self, ok)

\* CameraScene.on_exit: if self.app.camera: self.app.camera.stop_preview()
CameraScene_on_exit(self, ok) == CallCamera(stop_preview(self), self, ok)

\* The callback _init_scenes registered for state s; only the camera scene's
\* callbacks act on the camera.
Callback(kind, s, self, ok) ==
    IF s # "CAMERA" THEN self
    ELSE IF kind = "enter" THEN CameraScene_on_enter(self, ok)
    ELSE CameraScene_on_exit(self, ok)

\* handle_event on thread th: a request the table rejects returns false and
\* changes nothing; an accepted one goes on into transition().
TrBegin(th, event) ==
    LET target_state == event_transitions(event) IN
    /\ input.tr[th].pc = "idle"
    /\ target_state # None
    /\ can_transition(state_machine, target_state)
    /\ input' = [input EXCEPT !.tr[th] = [pc |-> "exit", target |-> target_state]]

\* The events the scenes and the hitbox actions send from the tick; the boot
\* scene sends BOOT_COMPLETE from its update.
MainRequest ==
    \E event \in {"BOOT_COMPLETE", "OPEN_SETTINGS", "OPEN_GALLERY", "BACK_TO_CAMERA"} :
        /\ event = "BOOT_COMPLETE" => state_machine.current_state = "BOOT"
        /\ TrBegin("main", event)
        /\ UNCHANGED <<app, flash_led, filter_engine, sm_vars, pm_vars, fs_vars, sp_vars>>

\* _encoder_button_release after a long press: the power manager goes to
\* Shutdown and the state machine is sent SHUTDOWN_REQUEST.
ButtonRequest ==
    /\ power_manager.state = STATE_ACTIVE
    /\ input.tr["button"].pc = "idle"
    /\ power_manager' = request_shutdown(PMStart).self
    /\ IF can_transition(state_machine, "SHUTDOWN")
       THEN TrBegin("button", "SHUTDOWN_REQUEST")
       ELSE UNCHANGED input
    /\ UNCHANGED <<brightness_ctrl, button, now, pm_call, app, flash_led, filter_engine,
                   sm_vars, fs_vars, sp_vars>>

\* One statement of transition() on thread th.  The callback tables are read
\* with the state as it is at that moment: the test and the call read
\* current_state one after the other, and a state without a callback at the
\* call raises KeyError.
TrStep(th) ==
    LET t == input.tr[th]
        s == state_machine.current_state
        goto(pc) == [input EXCEPT !.tr[th].pc = pc]
    IN
    /\ t.pc \notin {"idle", "raised"}
    /\ \/ /\ t.pc = "exit"
          /\ input' = IF s \in state_machine.on_exit_callbacks
                      THEN goto("exit_call") ELSE goto("set_previous")
          /\ UNCHANGED <<state_machine, camera>>
       \/ /\ t.pc = "exit_call"
          /\ IF s \in state_machine.on_exit_callbacks
             THEN /\ \E ok \in BOOLEAN : camera' = Callback("exit", s, camera, ok)
                  /\ input' = goto("set_previous")
             ELSE /\ input' = goto("raised")
                  /\ UNCHANGED camera
          /\ UNCHANGED state_machine
       \/ /\ t.pc = "set_previous"
          /\ state_machine' = [state_machine EXCEPT !.previous_state = s]
          /\ input' = goto("set_current")
          /\ UNCHANGED camera
       \/ /\ t.pc = "set_current"
          /\ state_machine' = [state_machine EXCEPT !.current_state = t.target]
          /\ input' = goto("enter")
          /\ UNCHANGED camera
       \/ /\ t.pc = "enter"
          /\ input' = IF s \in state_machine.on_enter_callbacks
                      THEN goto("enter_call") ELSE [input EXCEPT !.tr[th] = TrIdle]
          /\ UNCHANGED <<state_machine, camera>>
       \/ /\ t.pc = "enter_call"
          /\ IF s \in state_machine.on_enter_callbacks
             THEN /\ \E ok \in BOOLEAN : camera' = Callback("enter", s, camera, ok)
                  /\ input' = [input EXCEPT !.tr[th] = TrIdle]
             ELSE /\ input' = goto("raised")
                  /\ UNCHANGED camera
          /\ UNCHANGED state_machine
    /\ UNCHANGED <<sm_call, threads, frame_lock, fs_call, app, flash_led, filter_engine,
                   pm_vars, sp_vars>>

TrNext == \E th \in TrThreads : TrStep(th)

\* What a step of the capture did, with the state of the application at
\* that moment.
Shot(step) == [step |-> step, state |-> state_machine.current_state]

\* The shutter thread is inside CameraScene._capture_photo.
InCapturePhoto == input.shot.pc \notin {"idle", "activity", "is_camera"}

\* DebouncedButton._handle_press -> CameraApp._shutter_press
ShotPress ==
    /\ input.shot.pc = "idle"
    /\ input.shots < MaxShots
    /\ input' = [input EXCEPT !.shot = [ShotIdle EXCEPT !.pc = "activity"],
                              !.shots = @ + 1]
    /\ UNCHANGED <<app, flash_led, filter_engine, sm_vars, pm_vars, fs_vars, sp_vars>>

\* capture_array of the picamera2 backend: a copy of the frame the device
\* delivers while the preview runs; None when it does not run or the read
\* raises.
capture_array(self, ok) == self.is_running /\ ok

\* One statement of _shutter_press and of _capture_photo.  The flash mode
\* and the illuminance decide use_flash; on() and off() are taken statement
\* by statement (FlashStep) and the routine goes on when they have returned.
ShotStep ==
    LET sh == input.shot
        goto(pc) == [input EXCEPT !.shot.pc = pc]
        logged(step, pc) == [input EXCEPT !.shot.pc = pc,
                                          !.shot.log = Append(@, Shot(step))]
    IN
    /\ \/ /\ sh.pc = "activity"
          /\ PMOnly(update_activity(PMStart, now, [rd_ok |-> TRUE, wr_ok |-> TRUE]))
          /\ input' = goto("is_camera")
          /\ UNCHANGED flash_led
       \/ /\ sh.pc = "is_camera"
          /\ input' = IF state_machine.current_state = "CAMERA"
                      THEN goto("flash_mode") ELSE goto("idle")
          /\ UNCHANGED <<power_manager, brightness_ctrl, flash_led>>
       \/ /\ sh.pc = "flash_mode"
          /\ \E use_flash \in BOOLEAN :
              IF use_flash
              THEN /\ UnusedTimers(flash_led) # {}
                   /\ flash_led' = [flash_led EXCEPT !.calls[Caller] = on(flash_led)]
                   /\ input' = [logged("flash", "on") EXCEPT !.shot.use_flash = TRUE]
              ELSE /\ input' = goto("capture_array")
                   /\ UNCHANGED flash_led
          /\ UNCHANGED <<power_manager, brightness_ctrl>>
       \/ /\ sh.pc = "on"
          /\ flash_led.calls[Caller] = <<>>
          /\ input' = goto("capture_array")
          /\ UNCHANGED <<power_manager, brightness_ctrl, flash_led>>
       \/ /\ sh.pc = "capture_array"
          /\ \E ok \in BOOLEAN :
              LET raw_frame == capture_array(camera, ok)
                  got == [logged("capture_array", "off") EXCEPT !.shot.frame = raw_frame]
              IN
              /\ ok \/ camera.is_running
              /\ IF sh.use_flash
                 THEN /\ flash_led' = [flash_led EXCEPT !.calls[Caller] = off(flash_led)]
                      /\ input' = got
                 ELSE /\ input' = [got EXCEPT !.shot.pc =
                                       IF raw_frame THEN "filter" ELSE "idle"]
                      /\ UNCHANGED flash_led
          /\ UNCHANGED <<power_manager, brightness_ctrl>>
       \/ /\ sh.pc = "off"
          /\ flash_led.calls[Caller] = <<>>
          /\ input' = IF sh.frame THEN goto("filter") ELSE goto("idle")
          /\ UNCHANGED <<power_manager, brightness_ctrl, flash_led>>
       \/ /\ sh.pc = "filter"
          /\ \E ok \in BOOLEAN :
              input' = logged("filter", IF ok THEN "save" ELSE "idle")
          /\ UNCHANGED <<power_manager, brightness_ctrl, flash_led>>
       \/ /\ sh.pc = "save"
          /\ input' = logged("save", "idle")
          /\ UNCHANGED <<power_manager, brightness_ctrl, flash_led>>
    /\ UNCHANGED <<button, now, pm_call, app, filter_engine, sm_vars, fs_vars, sp_vars>>

InputIdle == input = InputInit

\* The scenes' callbacks are registered and the loop has not started.
InputStart == RunInit /\ InputIdle

\* transition() on the main thread.
MainStep == TrStep("main")

\* The state machine driven from the main thread and the encoder button.
SceneNext == MainRequest \/ ButtonRequest \/ TrNext

\* The shutter button, with the main thread and the flash's watchdogs.
ShotNext ==
    \/ MainRequest
    \/ MainStep
    \/ ShotPress
    \/ ShotStep
    \/ FlashExpire
    \/ FlashTimeout
    \/ FlashStep

InputNext == SceneNext \/ ShotNext

(***************************************************************************)
(* Specifications                                                          *)
(***************************************************************************)
\* StateMachine(initial_state), or StateMachine() with no argument.
SMInit ==
    \/ \E initial_state \in AppState :
        /\ state_machine = StateMachineInit(initial_state)
        /\ sm_call = [op |-> "init", arg |-> initial_state, ret |-> FALSE,
                      pre |-> StateMachineInit(initial_state), hooks |-> <<>>]
    \/ /\ state_machine = StateMachineDefault
       /\ sm_call = [op |-> "init", arg |-> None, ret |-> FALSE,
                     pre |-> StateMachineDefault, hooks |-> <<>>]

PMInit ==
    /\ now = 0
    /\ \E timeout \in 1..MaxTimeout, long_press \in 1..MaxLongPress :
           power_manager = PowerManagerInit(0, timeout, long_press)
    /\ \/ brightness_ctrl = [available |-> FALSE, brightness |-> NoValue]
       \/ \E b \in BrightnessValues :
              brightness_ctrl = [available |-> TRUE, brightness |-> b]
    /\ button = ButtonUp
    /\ pm_call = NoCall

\* The application's construction: StateMachine(AppState.BOOT), and a power
\* manager with the default timeouts over an available backlight.
SMBoot ==
    /\ state_machine = StateMachineInit("BOOT")
    /\ sm_call = [op |-> "init", arg |-> "BOOT", ret |-> FALSE,
                  pre |-> StateMachineInit("BOOT"), hooks |-> <<>>]

SMNext == SMTransition \/ SMHandleEvent \/ SMOnEnter \/ SMOnExit

PMNext ==
    \/ Tick
    \/ PMUpdateActivity
    \/ PMCheckStandby
    \/ PMEncoderButtonPressed
    \/ PMEncoderButtonReleased
    \/ SettingsSetBrightness

\* The main loop, the flash and the filter engine before they are used.
APIdle == AppIdle /\ FlashIdle /\ FilterIdle /\ InputIdle

Init == SMInit /\ PMInit /\ FSInit /\ SPInit /\ APIdle

Next == SMNext \/ PMNext \/ FSNext \/ SPNext \/ RunNext \/ FlashNext \/ FilterNext
           \/ InputNext \/ WakeNext

Spec == Init /\ [][Next]_vars

\* The power manager as the application constructs it and before any call.
PMIdleAt(t) ==
    /\ now = t
    /\ power_manager = PowerManagerInit(t, 1, 1)
    /\ brightness_ctrl = [available |-> FALSE, brightness |-> NoValue]
    /\ button = ButtonUp
    /\ pm_call = NoCall

PMIdle == PMIdleAt(0)

\* The state machine alone, everything else left as constructed.
InitSM == SMInit /\ PMIdle /\ FSIdle /\ SPIdle /\ APIdle

SpecSM == InitSM /\ [][SMNext]_vars

\* The power manager alone, everything else left as constructed.
InitPM == PMInit /\ SMBoot /\ FSIdle /\ SPIdle /\ APIdle

SpecPM == InitPM /\ [][PMNext]_vars

\* The camera backend alone, with its preview threads.
InitFS == FSInit /\ SMBoot /\ PMIdle /\ SPIdle /\ APIdle

SpecFS == InitFS /\ [][FSNext]_vars

\* Start-up and the sensor thread.
InitSP == SPInit /\ SMBoot /\ PMIdleAt(StartTime) /\ FSIdle /\ APIdle

SpecSP == InitSP /\ [][SPNext]_vars

\* The scheduler lets a started thread run.
SpecSPFair == SpecSP /\ WF_vars(SPLoop)

\* The main loop, with the clock and the encoder button.
InitRun == RunInit /\ PMIdle /\ FSIdle /\ SPIdle /\ FlashIdle /\ FilterIdle /\ InputIdle

SpecRun == InitRun /\ [][RunNext]_vars

\* The main loop, with the clock, the encoder and the shutter button.
SpecWake == InitRun /\ [][WakeNext]_vars

\* The flash with its callers and watchdog timers.
InitFlash == FlashIdle /\ SMBoot /\ PMIdle /\ FSIdle /\ SPIdle /\ AppIdle /\ FilterIdle /\ InputIdle

SpecFlash == InitFlash /\ [][FlashNext]_vars

\* The threads of the events, of the encoder button and of the shutter button.
InitInput == InputStart /\ PMIdle /\ FSIdle /\ SPIdle /\ FlashIdle /\ FilterIdle

SpecScene == InitInput /\ [][SceneNext]_vars

SpecShot == InitInput /\ [][ShotNext]_vars

\* The filter engine applied to one frame.
InitFilter == FilterInit /\ SMBoot /\ PMIdle /\ FSIdle /\ SPIdle /\ AppIdle /\ FlashIdle /\ InputIdle

SpecFilter == InitFilter /\ [][FilterNext]_vars

(***************************************************************************)
(* Properties of the application state machine (SpecSM)                    *)
(***************************************************************************)
\* The transition table as the specification states it, as a set of edges.
TableEdges ==
    {<<"BOOT", "CAMERA">>,
     <<"CAMERA", "SETTINGS">>, <<"CAMERA", "GALLERY">>, <<"CAMERA", "SHUTDOWN">>,
     <<"SETTINGS", "CAMERA">>, <<"SETTINGS", "SHUTDOWN">>,
     <<"GALLERY", "CAMERA">>, <<"GALLERY", "SHUTDOWN">>}

SMIsTransitionCall == sm_call.op \in {"transition", "handle_event"}

\* The callback log a successful transition from s to t must leave, given the
\* machine as it was before the call.
ExpectedHooks(pre, t) ==
    (IF pre.current_state \in pre.on_exit_callbacks
     THEN <<[kind |-> "exit", state |-> pre.current_state,
             current_state |-> pre.current_state,
             previous_state |-> pre.previous_state]>>
     ELSE <<>>)
    \o
    (IF t \in pre.on_enter_callbacks
     THEN <<[kind |-> "enter", state |-> t,
             current_state |-> t, previous_state |-> pre.current_state]>>
     ELSE <<>>)

ExitCount(s) ==
    Cardinality({i \in 1..Len(sm_call.hooks) :
                    sm_call.hooks[i].kind = "exit" /\ sm_call.hooks[i].state = s})

\* C1: every change of current_state, and every call that reports a
\* transition, goes along an edge of the static transition table.
C1_OnlyTableEdges ==
    [][(state_machine'.current_state # state_machine.current_state
        \/ (sm_call' # sm_call /\ sm_call'.ret))
       => <<state_machine.current_state, state_machine'.current_state>> \in TableEdges]_vars

C1_Witness ==
    /\ sm_call.ret
    /\ sm_call.pre.current_state = "GALLERY"
    /\ state_machine.current_state = "SHUTDOWN"

\* C2: transition(target) with a target outside the current state's allowed
\* set returns false, leaves current_state and previous_state (the whole
\* machine) unchanged and invokes no callback.
C2_InvalidTargetRejected ==
    (sm_call.op = "transition"
     /\ <<sm_call.pre.current_state, sm_call.arg>> \notin TableEdges)
    => /\ ~sm_call.ret
       /\ state_machine = sm_call.pre
       /\ sm_call.hooks = <<>>

C2_Witness ==
    /\ sm_call.op = "transition"
    /\ <<sm_call.pre.current_state, sm_call.arg>> \notin TableEdges
    /\ sm_call.pre.current_state # "SHUTDOWN"
    /\ sm_call.pre.current_state \in sm_call.pre.on_exit_callbacks
    /\ sm_call.arg \in sm_call.pre.on_enter_callbacks

\* C3: once current_state is Shutdown it stays Shutdown; every transition and
\* handle_event call made there returns false and invokes no callback.
C3_ShutdownTerminal ==
    [][state_machine.current_state = "SHUTDOWN"
       => /\ state_machine'.current_state = "SHUTDOWN"
          /\ state_machine'.previous_state = state_machine.previous_state
          /\ (sm_call'.op \in {"transition", "handle_event"}
              => ~sm_call'.ret /\ sm_call'.hooks = <<>>)]_vars

C3_Witness ==
    /\ sm_call.op = "handle_event"
    /\ sm_call.arg = "BACK_TO_CAMERA"
    /\ sm_call.pre.current_state = "SHUTDOWN"
    /\ "SHUTDOWN" \in sm_call.pre.on_exit_callbacks
    /\ "CAMERA" \in sm_call.pre.on_enter_callbacks
    /\ state_machine.current_state = "SHUTDOWN"

\* C4 as stated: handle_event(ShutdownRequest) in Boot, Camera, Settings or
\* Gallery moves the machine to Shutdown and invokes the exit callback of the
\* state left exactly once (when one is registered).
C4_AnyNonTerminalState ==
    (sm_call.op = "handle_event" /\ sm_call.arg = "SHUTDOWN_REQUEST"
     /\ sm_call.pre.current_state \in {"BOOT", "CAMERA", "SETTINGS", "GALLERY"})
    => /\ state_machine.current_state = "SHUTDOWN"
       /\ ExitCount(sm_call.pre.current_state)
            = IF sm_call.pre.current_state \in sm_call.pre.on_exit_callbacks
              THEN 1 ELSE 0

\* C4 amended: from Camera, Settings or Gallery the request moves the machine
\* to Shutdown, with the exit callback of the state left invoked exactly once
\* when one is registered and no other exit callback; from Boot it is
\* rejected: false is returned, nothing changes, no callback runs.
C4_FromCameraSettingsGallery ==
    (sm_call.op = "handle_event" /\ sm_call.arg = "SHUTDOWN_REQUEST")
    => /\ sm_call.pre.current_state \in {"CAMERA", "SETTINGS", "GALLERY"}
          => /\ sm_call.ret
             /\ state_machine.current_state = "SHUTDOWN"
             /\ state_machine.previous_state = sm_call.pre.current_state
             /\ ExitCount(sm_call.pre.current_state)
                  = IF sm_call.pre.current_state \in sm_call.pre.on_exit_callbacks
                    THEN 1 ELSE 0
             /\ \A s \in AppState \ {sm_call.pre.current_state} : ExitCount(s) = 0
       /\ sm_call.pre.current_state = "BOOT"
          => /\ ~sm_call.ret
             /\ state_machine = sm_call.pre
             /\ sm_call.hooks = <<>>

C4_Witness ==
    /\ sm_call.op = "handle_event"
    /\ sm_call.arg = "SHUTDOWN_REQUEST"
    /\ sm_call.pre.current_state = "SETTINGS"
    /\ "SETTINGS" \in sm_call.pre.on_exit_callbacks
    /\ ExitCount("SETTINGS") = 1
    /\ state_machine.current_state = "SHUTDOWN"

\* C5: in a successful transition from s to t the exit callback of s runs
\* first and observes current_state = s (and the previous state as it was),
\* then the state is updated, then the enter callback of t runs and observes
\* current_state = t and previous_state = s; nothing else is invoked.
C5_ExitMutateEnter ==
    (SMIsTransitionCall /\ sm_call.ret)
    => /\ sm_call.hooks = ExpectedHooks(sm_call.pre, state_machine.current_state)
       /\ state_machine.previous_state = sm_call.pre.current_state

C5_Witness ==
    /\ SMIsTransitionCall
    /\ sm_call.ret
    /\ Len(sm_call.hooks) = 2
    /\ sm_call.hooks[1].kind = "exit"
    /\ sm_call.hooks[2].kind = "enter"
    /\ sm_call.pre.previous_state # None

(***************************************************************************)
(* Properties of the power manager (SpecPM)                                *)
(***************************************************************************)
\* Idle time seen by the call: now minus the last activity before the call.
IdleTime == pm_call.t - pm_call.pre.last_activity_time

\* How long the button had been down when the call was made.
HeldTime == pm_call.t - pm_call.pre_button.press_time

\* C6 as stated: check_standby neither enters Standby nor returns true in
\* Standby or Shutdown, and a call with motion_detected = true resets the idle
\* clock to the current time in whatever state it is made.
C6_MotionResetsInEveryState ==
    pm_call.op = "check_standby"
    => /\ pm_call.pre.state \in {STATE_STANDBY, STATE_SHUTDOWN}
          => ~pm_call.ret /\ power_manager.state = pm_call.pre.state
       /\ pm_call.arg => power_manager.last_activity_time = pm_call.t

\* C6 amended: in Standby or Shutdown check_standby returns false and changes
\* nothing, the idle clock included, whatever motion_detected is; in Active a
\* call with motion_detected = true resets the idle clock to the current time,
\* returns false and stays Active.
C6_NoOpUnlessActive ==
    pm_call.op = "check_standby"
    => /\ pm_call.pre.state \in {STATE_STANDBY, STATE_SHUTDOWN}
          => /\ ~pm_call.ret
             /\ power_manager = pm_call.pre
             /\ brightness_ctrl = pm_call.pre_bc
             /\ pm_call.sets = <<>>
       /\ (pm_call.arg /\ pm_call.pre.state = STATE_ACTIVE)
          => /\ power_manager.last_activity_time = pm_call.t
             /\ ~pm_call.ret
             /\ power_manager.state = STATE_ACTIVE

C6_Witness ==
    /\ pm_call.op = "check_standby"
    /\ pm_call.pre.state = STATE_STANDBY
    /\ pm_call.arg
    /\ IdleTime >= pm_call.pre.standby_timeout
    /\ power_manager.last_activity_time < pm_call.t

C8_ShutdownTerminal ==
    [][power_manager.state = STATE_SHUTDOWN
       => power_manager'.state = STATE_SHUTDOWN]_vars

C8_Witness ==
    /\ pm_call.op = "check_standby"
    /\ pm_call.pre.state = STATE_SHUTDOWN
    /\ ~pm_call.arg
    /\ IdleTime >= pm_call.pre.standby_timeout
    /\ power_manager.state = STATE_SHUTDOWN

\* C9: update_activity in Standby makes the manager Active and sets the
\* brightness to exactly the value b the controller reported when Standby was
\* entered, for every value b it can report.
C9_WakeRestoresBrightness ==
    (pm_call.op = "update_activity"
     /\ pm_call.pre.state = STATE_STANDBY
     /\ pm_call.pre.active_brightness # NoValue)
    => /\ power_manager.state = STATE_ACTIVE
       /\ pm_call.sets = <<pm_call.pre.active_brightness>>

\* C10: in Active with motion_detected = false, check_standby enters Standby
\* and returns true exactly when the idle time is at least the timeout; on
\* entry it records the brightness the controller reports and sets the
\* brightness to 0; below the timeout it returns false and changes nothing.
C10_StandbyAtTimeout ==
    (pm_call.op = "check_standby" /\ pm_call.pre.state = STATE_ACTIVE /\ ~pm_call.arg)
    => IF IdleTime >= pm_call.pre.standby_timeout
       THEN /\ pm_call.ret
            /\ power_manager.state = STATE_STANDBY
            /\ power_manager.active_brightness
                 = IF pm_call.pre_bc.available /\ pm_call.io.rd_ok
                   THEN pm_call.pre_bc.brightness ELSE NoValue
            /\ pm_call.sets = <<0>>
            /\ (pm_call.pre_bc.available /\ pm_call.io.wr_ok)
               => brightness_ctrl.brightness = 0
            /\ power_manager.last_activity_time = pm_call.pre.last_activity_time
       ELSE /\ ~pm_call.ret
            /\ power_manager = pm_call.pre
            /\ brightness_ctrl = pm_call.pre_bc
            /\ pm_call.sets = <<>>

C10_Witness ==
    /\ pm_call.op = "check_standby"
    /\ pm_call.ret
    /\ IdleTime = pm_call.pre.standby_timeout
    /\ pm_call.pre_bc.available
    /\ pm_call.pre_bc.brightness = 40
    /\ power_manager.active_brightness = 40
    /\ brightness_ctrl.brightness = 0

(***************************************************************************)
(* Properties of the camera backend (SpecFS)                               *)
(***************************************************************************)
\* Preview is running: the flag is set and frames are being produced, by a
\* streaming device in preview configuration (picamera2) or by a preview
\* thread that has not been told to stop (picamera).
PreviewRunning ==
    /\ camera.is_running
    /\ camera.mode = "preview"
    /\ IF camera.camera_lib = "picamera2" THEN camera.started
       ELSE camera._preview_thread \in Alive(threads) /\ ~camera._stop_preview

\* C11: when capture_photo was called while preview was running, preview is
\* running again after it has returned, whether it returned True or a step
\* of it raised and it returned False.
C11_PreviewRestoredAfterCapture ==
    (fs_call.op = "capture_photo" /\ fs_call.done /\ fs_call.was_running)
        => PreviewRunning

\* The place of a step in the order the specification gives for capture_photo.
C12_Rank(step) ==
    CASE step = "signal" -> 1
      [] step \in {"join", "stop"} -> 2
      [] step = "configure_still" -> 3
      [] step = "start" -> 4
      [] step = "capture" -> 5
      [] step = "stop_still" -> 6
      [] step = "configure_preview" -> 7
      [] step \in {"start_run", "thread_start"} -> 8

C12_Steps == {fs_call.log[i] : i \in DOMAIN fs_call.log}

\* C12: within capture_photo the steps that have completed are in the order
\* preview stop, reconfiguration for still mode, still start, capture, device
\* stop, reconfiguration for preview, preview restart.  None is begun before
\* the ones it needs have completed: a preview that was running has been
\* stopped when the device is reconfigured, and the device is in still mode
\* (and, with picamera2, started) when the capture is made.  Preview is stopped and restarted only
\* if it was running before the call, and a call that returns True has made
\* the capture and restored the preview configuration.
C12_StepsInOrder ==
    fs_call.op = "capture_photo" =>
        /\ \A i, j \in DOMAIN fs_call.log :
               i < j => C12_Rank(fs_call.log[i]) < C12_Rank(fs_call.log[j])
        /\ "configure_still" \in C12_Steps =>
               (fs_call.was_running <=> (C12_Steps \cap {"join", "stop"} # {}))
        /\ "capture" \in C12_Steps =>
               /\ "configure_still" \in C12_Steps
               /\ camera.camera_lib = "picamera2" => "start" \in C12_Steps
        /\ (~fs_call.done /\ Head(fs_call.todo) = "configure_still"
                /\ fs_call.was_running) =>
               IF camera.camera_lib = "picamera2" THEN ~camera.started
               ELSE ~camera.is_running
        /\ (~fs_call.done /\ Head(fs_call.todo) = "capture") =>
               /\ camera.mode = "still"
               /\ camera.camera_lib = "picamera2" => camera.started
        /\ (C12_Steps \cap {"start_run", "thread_start"} # {}) =>
               /\ fs_call.was_running
               /\ "configure_preview" \in C12_Steps
        /\ (fs_call.done /\ fs_call.ret) =>
               /\ {"capture", "configure_preview"} \subseteq C12_Steps
               /\ camera.camera_lib = "picamera2" => "stop_still" \in C12_Steps
               /\ fs_call.was_running <=>
                      (C12_Steps \cap {"start_run", "thread_start"} # {})

C12_Witness ==
    /\ fs_call.op = "capture_photo"
    /\ fs_call.done
    /\ fs_call.ret
    /\ fs_call.was_running
    /\ camera.camera_lib = "picamera"
    /\ Len(fs_call.log) = 6

\* capture_photo is between its preview stop and its preview restart.
InCapture ==
    /\ fs_call.op = "capture_photo"
    /\ ~fs_call.done
    /\ fs_call.was_running
    /\ C12_Steps \cap {"join", "stop"} # {}

\* C13: between the preview stop and the preview restart of capture_photo
\* no preview thread is in a device read and none is storing a frame.
C13_NoPreviewDuringCapture ==
    InCapture => \A t \in Threads : threads[t].pc \notin {"read", "store"}

\* C14: get_preview_frame returns None when preview is not running or no
\* frame has been stored, and otherwise the frame stored last; and
\* _frame_lock, for which it may wait, is never held by a thread that is in
\* a device read.
C14_LatestFrameOrNone ==
    /\ fs_call.op = "get_preview_frame" =>
           IF ~fs_call.was_running \/ fs_call.stored = NoValue
           THEN fs_call.frame = NoValue
           ELSE fs_call.frame = fs_call.stored
    /\ frame_lock # 0 => threads[frame_lock].pc # "read"

C16_SurvivesFailuresAndResetsCounter ==
    /\ (camera.camera_lib = "picamera" /\ camera.is_running /\ fs_call.done) =>
           camera._preview_thread \in Alive(threads)
    /\ (fs_call.op = "get_preview_frame" /\ camera.camera_lib = "picamera"
            /\ fs_call.was_running) =>
           (fs_call.frame = NoValue <=> fs_call.stored = NoValue)
    /\ \A t \in Threads :
           (camera.failures = 2 /\ threads[t].pc \in {"lock", "store"}) =>
               /\ "errors" \in DOMAIN threads[t]
               /\ threads[t].errors = 0

(***************************************************************************)
(* Properties of start-up and of the sensor thread (SpecSP, SpecSPFair)    *)
(***************************************************************************)
\* The attempts to construct the camera that start-up has made.
Attempts == Cardinality({i \in DOMAIN startup.log : startup.log[i] = "construct"})

\* C17: the camera is constructed in at most 3 attempts, with a backoff
\* sleep between two attempts and none after the last; construction stops
\* at the first attempt that succeeds; when all 3 have failed the error is
\* fatal: main() exits with code 1 and no further attempt is made.
C17_BoundedConstruction ==
    /\ Attempts <= 3
    /\ \A i \in DOMAIN startup.log :
           startup.log[i] = IF i % 2 = 1 THEN "construct" ELSE "sleep"
    /\ (startup.pc # "construct" /\ startup.backend) =>
           startup.log[Len(startup.log)] = "construct"
    /\ startup.camera => startup.pc \notin {"construct", "raise", "exit"}
    /\ (startup.pc \in {"raise", "exit"} /\ startup.backend) =>
           ~startup.camera /\ Attempts = 3
    /\ startup.pc = "exit" =>
           /\ startup.exit_code = 1
           /\ ~startup.camera
           /\ sensor_thread.pc = "new"
           /\ ~ENABLED AppInitCamera

C17_Witness ==
    /\ startup.pc = "exit"
    /\ startup.log = <<"construct", "sleep", "construct", "sleep", "construct">>

\* C18: once stop() has been called on the sensor thread, its loop ends,
\* whenever the call is made after start().
C18_StopEndsLoop == (startup.pc = "stopped") ~> (sensor_thread.pc = "done")

\* C19: the sensor thread does not hold its lock while a sensor read is in
\* progress.
C19_NoReadUnderLock == ~(sensor_thread.lock /\ sensors.reading # "none")

\* C20: a light sensor that is unavailable is never read by the sensor
\* thread, and lux_value stays None, in the thread and in what get_lux()
\* returns, however many passes the loop makes.
C20_UnavailableNeverPolled ==
    ~sensors.available["lux"] =>
        /\ "lux" \notin sensors.polled
        /\ sensor_thread.value["lux"] = NoValue
        /\ startup.lux = NoValue

\* The lux gate has opened a second time, a period after start-up, and get_lux
\* has been called while the other sensors were read.
C20_Witness ==
    /\ ~sensors.available["lux"]
    /\ sensor_thread.last["lux"] >= StartTime + LuxPeriod
    /\ {"gyro", "battery"} \subseteq sensors.polled
    /\ startup.pc = "run"

\* C21: a sensor read that fails causes no update: every field of the
\* snapshot still holds the value of the last read of that sensor that
\* succeeded, and the loop goes on to the next section.
C21_FailedReadKeepsValue ==
    /\ \A s \in SensorNames : sensor_thread.value[s] = sensors.good[s]
    /\ sensor_thread.pc = "done" => ~sensor_thread.running

\* What one step may do to the gates of the loop.
GateStep ==
    /\ (sensors.reading = "none" /\ sensors'.reading # "none") =>
           LET s == sensors'.reading IN
           /\ sensor_thread.pc = s
           /\ sensor_thread.now - sensor_thread.last[s] >= Period(s)
    /\ sensor_thread.pc \in SensorNames =>
           sensor_thread'.pc \in {sensor_thread.pc, "read", After(sensor_thread.pc)}
    /\ sensor_thread.pc = "read" =>
           sensor_thread'.pc \in {"read", After(sensors.reading)}
    /\ \A s \in SensorNames :
           sensor_thread'.last[s] # sensor_thread.last[s] =>
               /\ sensor_thread'.last[s] = sensor_thread.now
               /\ \/ sensor_thread.pc = s
                  \/ sensor_thread.pc = "read" /\ sensors.reading = s

\* C22: in one pass of the loop the sections of the three sensors follow
\* one another, so each sensor is read at most once; a read starts only in
\* the sensor's own section and only when its period (4, 1 and 20 units of
\* 50 ms) has elapsed since its gate last fired; and the timestamp of a
\* gate changes only in that gate's own section, to the time of the pass.
C22_GatesIndependent == [][GateStep]_vars

\* The tilt is read a second time while the illuminance gate, which fired
\* less than its period ago, stays closed.
C22_Witness ==
    /\ sensors.reading = "gyro"
    /\ sensors.available["lux"]
    /\ sensor_thread.last["lux"] >= StartTime
    /\ sensor_thread.last["gyro"] >= StartTime
    /\ sensor_thread.now - sensor_thread.last["lux"] \in 1..(LuxPeriod - 1)

\* C23: the readings one drawing of the info bar shows are taken in one
\* critical section: the loop writes none of them between the read of the
\* battery level and the read of the illuminance.
C23_SnapshotInOneSection == startup.bar # "torn"

(***************************************************************************)
(* Properties of the main loop (SpecRun)                                   *)
(***************************************************************************)
\* C24: a tick that begins with the power manager in Shutdown runs the
\* shutdown sequence as its first and only phase (no standby check, event,
\* update or render before or after it), the loop then stops, and the
\* sequence is never run a second time.
C24_ShutdownFirstAndOnce ==
    /\ app.shutdowns <= 1
    /\ (app.pc = "tick" /\ app.shutdown_at_start) =>
           app.log = <<>> /\ Head(app.todo) = "shutdown"
    /\ app.shutdown_at_start /\ app.pc # "tick" => "shutdown" \in Phases(app)
    /\ "shutdown" \in Phases(app) =>
           /\ Phases(app) = {"shutdown"}
           /\ app.shutdowns = 1
           /\ ~app.running
           /\ app.pc \in {"cleanup", "exit"}

\* The loop has ended after a tick that ran the shutdown sequence.
C24_Witness ==
    /\ app.pc = "exit"
    /\ app.shutdown_at_start
    /\ app.shutdowns = 1

\* C25: what a tick does while the power manager is in Standby is neither a
\* frame pull nor a filter pass nor a render of the scene; and a tick that
\* reaches its render phase outside Standby renders the scene of the
\* current state.
C25_NoFrameWorkInStandby ==
    \A i \in 1..Len(app.log) :
        /\ app.log[i].state = STATE_STANDBY =>
               app.log[i].phase \notin {"render", "pull", "filter"}
        /\ app.log[i].phase = "black" => app.log[i].state = STATE_STANDBY
        /\ app.log[i].phase = "no_scene" =>
               state_machine.current_state \notin scenes
        /\ app.log[i].phase = "frame_end" =>
               \E j \in 1..(i - 1) :
                   app.log[j].phase \in {"render", "black", "no_scene"}

\* A whole tick spent in Standby: events drained, the scene updated, the
\* screen blanked, and nothing pulled, filtered or rendered.
C25_Witness ==
    /\ app.pc = "while"
    /\ Phases(app) = {"events", "update", "black", "frame_end"}
    /\ \A i \in 1..Len(app.log) : app.log[i].state = STATE_STANDBY

(***************************************************************************)
(* Properties of the flash (SpecFlash)                                     *)
(***************************************************************************)
\* No thread is inside on() or off().
FlashQuiet ==
    /\ \A th \in FlashThreads : flash_led.calls[th] = <<>>
    /\ \A t \in Timers : flash_led.timers[t] # "expired"

\* C26: the flash is never on without an armed watchdog: whenever no call
\* of on() or off() is in progress and the line is high, _watchdog_timer
\* is a timer that is still waiting to expire.
C26_NeverOnWithoutWatchdog ==
    (FlashQuiet /\ flash_led.led) =>
        /\ flash_led._watchdog_timer # 0
        /\ flash_led.timers[flash_led._watchdog_timer] = "armed"

(***************************************************************************)
(* Properties of the filter engine (SpecFilter)                            *)
(***************************************************************************)
\* C27: process_frame with the selector none (FilterType.NONE, or no
\* selector at all) and ISO 400 returns a frame equal to its input in every
\* channel, and the array passed in holds afterwards what it held before.
C27_IdentityAtNone400 ==
    (/\ filter_engine.op = "process_frame"
     /\ filter_engine.filter_type \in {None, "none"}
     /\ filter_engine.iso_value = 400) =>
        /\ filter_engine.result.out = filter_engine.frame
        /\ filter_engine.result.input = filter_engine.frame

C27_Witness ==
    /\ filter_engine.op = "process_frame"
    /\ filter_engine.filter_type = "none"
    /\ filter_engine.iso_value = 400
    /\ filter_engine.frame = <<1, 100, 255>>
    /\ filter_engine.result.out = <<1, 100, 255>>

\* C28: for every selector and every ISO value of 100, 200, 400, 800,
\* process_frame of the all-zero and of the all-255 frame returns channel
\* values in 0..255, and no value above 255 was cast to uint8 on the way.
C28_ExtremesStayInRange ==
    (/\ filter_engine.op = "process_frame"
     /\ filter_engine.filter_type \in FilterType
     /\ filter_engine.iso_value \in ISOValues
     /\ filter_engine.frame \in {<<0, 0, 0>>, <<255, 255, 255>>}) =>
        /\ \A c \in 1..3 : filter_engine.result.out[c] \in 0..255
        /\ ~filter_engine.result.wrapped

\* The red filter at ISO 800 on the all-255 frame: red stays at 255.
C28_Witness ==
    /\ filter_engine.op = "process_frame"
    /\ filter_engine.filter_type = "red"
    /\ filter_engine.iso_value = 800
    /\ filter_engine.frame = <<255, 255, 255>>
    /\ filter_engine.result.out = <<255, 127, 127>>

\* C29: Monochrome applied to its own result returns that result.
C29_MonochromeIdempotent ==
    (filter_engine.op = "apply_filter_again" /\ filter_engine.filter_type = "monochrom")
        => filter_engine.result.out = filter_engine.first

(***************************************************************************)
(* The state machine as constructed by default (SpecSM)                    *)
(***************************************************************************)
\* C30: a StateMachine constructed without arguments is in Boot with no
\* previous state, can_transition(Camera) is true of it, and transition
\* to Camera succeeds.
C30_DefaultStartsInBoot ==
    (sm_call.op = "init" /\ sm_call.arg = None) =>
        /\ state_machine.current_state = "BOOT"
        /\ state_machine.previous_state = None
        /\ can_transition(state_machine, "CAMERA")
        /\ transition(state_machine, "CAMERA").ret
        /\ transition(state_machine, "CAMERA").self.current_state = "CAMERA"

\* The machine constructed without arguments, before any call.
C30_Witness ==
    /\ sm_call.op = "init"
    /\ sm_call.arg = None
    /\ state_machine = StateMachineInit("BOOT")
    /\ ENABLED SMTransition

(***************************************************************************)
(* The power manager as constructed (SpecPM)                               *)
(***************************************************************************)
\* The power manager before any call on it and before the clock has moved.
NewlyConstructed == now = 0 /\ pm_call.op = "none"

\* C31: a newly constructed PowerManager is in state Standby.
C31_NewIsStandby == NewlyConstructed => power_manager.state = STATE_STANDBY

(***************************************************************************)
(* Events and transitions (SpecSM)                                         *)
(***************************************************************************)
\* The target state of each event of the vocabulary, as the claim lists them.
C32_Target(event) ==
    CASE event = "BOOT_COMPLETE"    -> "CAMERA"
      [] event = "OPEN_SETTINGS"    -> "SETTINGS"
      [] event = "OPEN_GALLERY"     -> "GALLERY"
      [] event = "BACK_TO_CAMERA"   -> "CAMERA"
      [] event = "SHUTDOWN_REQUEST" -> "SHUTDOWN"

\* C32: for every state and every event of the vocabulary, a call of
\* handle_event(event) returned, left the machine and invoked the callbacks
\* exactly as transition(target(event)) does from the same machine; in every
\* state BootComplete and BackToCamera are accepted alike.
C32_HandleEventIsTransition ==
    /\ (sm_call.op = "handle_event" /\ sm_call.arg \in AppEvent) =>
           LET c == transition(sm_call.pre, C32_Target(sm_call.arg)) IN
           /\ sm_call.ret = c.ret
           /\ state_machine.current_state = c.self.current_state
           /\ state_machine.previous_state = c.self.previous_state
           /\ sm_call.hooks = c.hooks
    /\ handle_event(state_machine, "BOOT_COMPLETE")
         = handle_event(state_machine, "BACK_TO_CAMERA")

\* BackToCamera from Settings with both callbacks registered, and a machine
\* that had already made a transition before.
C32_Witness ==
    /\ sm_call.op = "handle_event"
    /\ sm_call.arg = "BACK_TO_CAMERA"
    /\ sm_call.pre.current_state = "SETTINGS"
    /\ sm_call.pre.previous_state = "CAMERA"
    /\ sm_call.ret
    /\ Len(sm_call.hooks) = 2
    /\ state_machine.current_state = "CAMERA"

(***************************************************************************)
(* The encoder button and the two state machines (SpecRun)                 *)
(***************************************************************************)
\* The release callback ran and encoder_button_released returned true: the
\* power manager went to Shutdown in this step.
LongPressReleased ==
    /\ button.down
    /\ ~button'.down
    /\ power_manager.state # STATE_SHUTDOWN
    /\ power_manager'.state = STATE_SHUTDOWN

\* C33: whenever a long press makes encoder_button_released return true,
\* the state machine is in Shutdown as well after the release callback,
\* whatever state (Boot, Camera, Settings, Gallery) it was in.
C33_LongPressShutsBothDown ==
    [][LongPressReleased => state_machine'.current_state = "SHUTDOWN"]_vars

(***************************************************************************)
(* The preview and the camera state (SpecScene)                            *)
(***************************************************************************)
\* No thread is inside transition().
NoTransition == \A th \in TrThreads : input.tr[th].pc \in {"idle", "raised"}

\* C34: whenever no transition is in progress, the preview is running
\* exactly when the state machine is in Camera.
C34_PreviewIffCamera ==
    NoTransition => (PreviewRunning <=> state_machine.current_state = "CAMERA")

(***************************************************************************)
(* The acquisition loops of the picamera backend (SpecFS)                  *)
(***************************************************************************)
\* C35: at most one acquisition loop of the FrameSource is alive at any
\* time, across every sequence of start_preview, stop_preview and
\* capture_photo, also when the join of stop_preview times out and the next
\* start_preview clears the stop flag.
C35_AtMostOneLoop == Cardinality(Alive(threads)) <= 1

\* C36: every frame get_preview_frame returns was stored after the most
\* recent start of the preview (start_preview, or the restart at the end of
\* capture_photo); until the new session has stored a frame it returns none.
C36_FrameOfThisSession ==
    (fs_call.op = "get_preview_frame" /\ fs_call.frame # NoValue)
        => fs_call.frame > camera.session

(***************************************************************************)
(* Inputs in Standby (SpecWake)                                            *)
(***************************************************************************)
\* The last step was a callback of the encoder or of the shutter button that
\* found the power manager in Standby.
CallbackInStandby ==
    /\ pm_call.op \in {"_encoder_rotate", "_shutter_press"}
    /\ pm_call.pre.state = STATE_STANDBY

\* C37: an input that arrives in Standby only wakes the device.  A callback
\* of the encoder or the shutter button that finds the power manager in
\* Standby makes no scene act and takes no photo, and a step of the tick's
\* event handling taken in Standby leaves the state machine as it is.
C37_StandbyInputOnlyWakes ==
    /\ [](CallbackInStandby => ~pm_call.ret)
    /\ [][(AtPhase("events") /\ power_manager.state = STATE_STANDBY)
             => state_machine' = state_machine]_vars

(***************************************************************************)
(* The shutter button and the capture routine (SpecShot)                   *)
(***************************************************************************)
\* C38: a photo capture runs only while the state machine is in Camera:
\* every step of it (flash, capture_array, filter, save) is made in that
\* state, whatever the main thread does meanwhile.
C38_CaptureOnlyInCamera ==
    \A i \in 1..Len(input.shot.log) : input.shot.log[i].state = "CAMERA"

\* C39: outside a capture attempt the flash is never on; in particular every
\* attempt that turned it on has left it off when the routine returns, on
\* the success path and on every failure path.
C39_FlashOffOutsideCapture == ~InCapturePhoto => ~flash_led.led
====
